---- MODULE Spec2Model ----
(***************************************************************************)
(* Verification model of the PDF export engine of QSMaxSP                  *)
(* (src/lib/exporters.ts).  A PDF file, a content stream and every text    *)
(* handled by the engine are TLA+ strings, one character per byte, so      *)
(* that lengths and byte offsets are measured and not assumed.             *)
(***************************************************************************)
EXTENDS Integers, Sequences, FiniteSets, TLC

VARIABLES wrapCall, pagination, simplePdf, reportPdf,
          sanitizeCall, lineWrap, returned, calls, optimizer, spreadCall,
          db, requests

\* the calls of the functions outside the four machines of the PDF export
otherCalls ==
  <<sanitizeCall, lineWrap, returned, calls, optimizer, spreadCall, db, requests>>

vars == <<wrapCall, pagination, simplePdf, reportPdf, otherCalls>>

\* no call of those functions is under way
OtherCallsIdle ==
  /\ sanitizeCall = [pc |-> "idle"]
  /\ lineWrap = [pc |-> "idle"]
  /\ returned = <<>>
  /\ calls = <<>>
  /\ optimizer = [pc |-> "idle"]
  /\ spreadCall = [pc |-> "idle"]
  /\ db = [users |-> {}, sessions |-> {}, engagements |-> {}]
  /\ requests = <<>>

(***************************************************************************)
(* Bounds of the explored inputs.                                          *)
(***************************************************************************)
MaxTextLen == 5
MaxWrapChars == 5
MaxWrapLines == 2
MaxRows == 5
MaxPdfLines == 2
MaxScenarios == 1
MaxSanitizeLen == 4
MaxCalls == 2

(***************************************************************************)
(* JavaScript string primitives used by the exporters.                     *)
(***************************************************************************)
Min(a, b) == IF a < b THEN a ELSE b

Max(a, b) == IF a > b THEN a ELSE b

SetMax(S) == CHOOSE m \in S : \A n \in S : n <= m

\* s.charAt(k), k counted from 0
CharAt(s, k) == SubSeq(s, k + 1, k + 1)

\* s.slice(from, to) for 0 <= from, 0 <= to
Slice(s, from, to) == SubSeq(s, from + 1, Min(to, Len(s)))

\* s.slice(from)
SliceFrom(s, from) == SubSeq(s, from + 1, Len(s))

\* s.lastIndexOf(c, fromIndex): the largest index <= fromIndex holding c, or -1
LastIndexOf(s, c, fromIndex) ==
  LET found == {k \in 0..Min(fromIndex, Len(s) - 1) : CharAt(s, k) = c}
  IN  IF found = {} THEN -1 ELSE SetMax(found)

\* the characters matched by the regular expression class \s
IsSpace(c) == c \in {" ", "\t", "\n", "\r"}

SetMin(S) == CHOOSE m \in S : \A n \in S : m <= n

\* the indexes, counted from 0, of the characters of s that are not spaces
NonSpaceIndexes(s) == {k \in 0..(Len(s) - 1) : ~IsSpace(CharAt(s, k))}

TrimStart(s) ==
  IF NonSpaceIndexes(s) = {} THEN "" ELSE SliceFrom(s, SetMin(NonSpaceIndexes(s)))

TrimEnd(s) ==
  IF NonSpaceIndexes(s) = {} THEN "" ELSE Slice(s, 0, SetMax(NonSpaceIndexes(s)) + 1)

Trim(s) == TrimEnd(TrimStart(s))

\* Math.floor(n * percent / 100) for the non-negative integers used here
FloorPercent(n, percent) == (n * percent) \div 100

\* String(n) for a non-negative integer
RECURSIVE NumToString(_)
NumToString(n) ==
  IF n < 10 THEN CharAt("0123456789", n)
  ELSE NumToString(n \div 10) \o CharAt("0123456789", n % 10)

\* String(n).padStart(width, "0")
RECURSIVE PadStartZero(_, _)
PadStartZero(s, width) ==
  IF Len(s) >= width THEN s ELSE PadStartZero("0" \o s, width)

\* parts[lo] + ... + parts[hi], halving the range to keep the evaluation shallow
RECURSIVE ConcatRange(_, _, _)
ConcatRange(parts, lo, hi) ==
  IF lo > hi THEN ""
  ELSE IF lo = hi THEN parts[lo]
  ELSE ConcatRange(parts, lo, (lo + hi) \div 2)
         \o ConcatRange(parts, (lo + hi) \div 2 + 1, hi)

\* parts.join("")
Concat(parts) == ConcatRange(parts, 1, Len(parts))

\* lines.join("\n")
JoinLines(lines) ==
  Concat([i \in 1..Len(lines) |-> IF i = 1 THEN lines[i] ELSE "\n" \o lines[i]])

(***************************************************************************)
(* toPdfSafeAscii and escapePdfText                                        *)
(***************************************************************************)
\* the characters of codes 32..95 and 97..126 (a TLA+ string cannot hold the
\* grave accent, code 96, which therefore is no character of the model)
AsciiFrom32 ==
  " !\"#$%&'()*+,-./0123456789:;<=>?@ABCDEFGHIJKLMNOPQRSTUVWXYZ[\\]^_"

AsciiFrom97 == "abcdefghijklmnopqrstuvwxyz{|}~"

IndexIn(table, c) ==
  LET found == {k \in 0..(Len(table) - 1) : CharAt(table, k) = c}
  IN  IF found = {} THEN -1 ELSE SetMax(found)

\* char.charCodeAt(0); a character outside the tables stands for a
\* non-ASCII character
CharCode(c) ==
  IF IndexIn(AsciiFrom32, c) >= 0 THEN 32 + IndexIn(AsciiFrom32, c)
  ELSE IF IndexIn(AsciiFrom97, c) >= 0 THEN 97 + IndexIn(AsciiFrom97, c)
  ELSE IF c = "\t" THEN 9
  ELSE IF c = "\n" THEN 10
  ELSE IF c = "\r" THEN 13
  ELSE 233

\* input.replace(/\r?\n/g, " "): a line feed becomes a space and the
\* carriage return before a line feed disappears
ReplaceNewlines(s) ==
  Concat([i \in 1..Len(s) |->
    LET c == CharAt(s, i - 1)
    IN  IF c = "\n" THEN " "
        ELSE IF c = "\r" /\ i < Len(s) /\ CharAt(s, i) = "\n" THEN ""
        ELSE c])

\* ReplaceTabs putting one space for a tab
ReplaceTabsBySingleSpace(s) ==
  Concat([i \in 1..Len(s) |-> IF CharAt(s, i - 1) = "\t" THEN " " ELSE CharAt(s, i - 1)])

\* .replace(/\t/g, "  ")
ReplaceTabs(s) ==
  Concat([i \in 1..Len(s) |-> IF CharAt(s, i - 1) = "\t" THEN "  " ELSE CharAt(s, i - 1)])

\* the for loop over the characters of collapsed
AsciiOrQuestionMark(collapsed) ==
  Concat([i \in 1..Len(collapsed) |->
    LET code == CharCode(CharAt(collapsed, i - 1))
    IN  IF code >= 32 /\ code <= 126 THEN CharAt(collapsed, i - 1) ELSE "?"])

toPdfSafeAscii(input) == AsciiOrQuestionMark(ReplaceTabs(ReplaceNewlines(input)))

\* s.replace(/c/g, "\\" + c) for a single character c
BackslashEscape(s, c) ==
  Concat([i \in 1..Len(s) |->
    IF CharAt(s, i - 1) = c THEN "\\" \o c ELSE CharAt(s, i - 1)])

\* escapePdfText escaping the parentheses before the backslashes
escapePdfTextBackslashLast(input) ==
  BackslashEscape(BackslashEscape(BackslashEscape(toPdfSafeAscii(input), "("), ")"), "\\")

escapePdfText(input) ==
  BackslashEscape(BackslashEscape(BackslashEscape(toPdfSafeAscii(input), "\\"), "("), ")")

\* s.replace(/\s+/g, " "): the first space of a run becomes " ", the others go
CollapseWhitespace(s) ==
  Concat([i \in 1..Len(s) |->
    LET c == CharAt(s, i - 1)
    IN  IF ~IsSpace(c) THEN c
        ELSE IF i > 1 /\ IsSpace(CharAt(s, i - 2)) THEN ""
        ELSE " "])

(***************************************************************************)
(* wrapPdfCellText                                                         *)
(***************************************************************************)
\* const safe = toPdfSafeAscii(input).replace(/\s+/g, " ").trim()
WrapSafe(input) == Trim(CollapseWhitespace(toPdfSafeAscii(input)))

\* WrapCut falling back to the start of the text when no space is usable
WrapCutFallbackAtStart(rest, maxChars) ==
  LET cut == LastIndexOf(rest, " ", maxChars)
  IN  IF cut < FloorPercent(maxChars, 55) THEN 0 ELSE cut

\* the cut position of one iteration of the wrap loop
WrapCut(rest, maxChars) ==
  LET cut == LastIndexOf(rest, " ", maxChars)
  IN  IF cut < FloorPercent(maxChars, 55) THEN maxChars ELSE cut

\* wrapped.push(rest.slice(0, cut).trimEnd())
WrapLine(rest, maxChars) == TrimEnd(Slice(rest, 0, WrapCut(rest, maxChars)))

\* WrapRest that keeps the space it was cut at
WrapRestUntrimmed(rest, maxChars) == SliceFrom(rest, WrapCut(rest, maxChars))

\* WrapRest that starts after the character at the cut
WrapRestSkipsCut(rest, maxChars) ==
  TrimStart(SliceFrom(rest, WrapCut(rest, maxChars) + 1))

\* rest = rest.slice(cut).trimStart()
WrapRest(rest, maxChars) == TrimStart(SliceFrom(rest, WrapCut(rest, maxChars)))

\* if (rest.length) wrapped.push(rest)
WrapTail(wrapped, rest) == IF rest # "" THEN Append(wrapped, rest) ELSE wrapped

\* EllipsisLine reserving two characters instead of three for the ellipsis
EllipsisLineReservesTwo(last, maxChars) ==
  IF Len(last) > maxChars - 2
  THEN TrimEnd(Slice(last, 0, Max(0, maxChars - 2))) \o "..."
  ELSE last \o "..."

\* the replacement of the last kept line when the wrap is clipped
EllipsisLine(last, maxChars) ==
  IF Len(last) > maxChars - 3
  THEN TrimEnd(Slice(last, 0, Max(0, maxChars - 3))) \o "..."
  ELSE last \o "..."

\* ClipLines ending on the line after the maxLines-th greedy line
ClipLinesSkipsLine(wrapped, maxChars, maxLines) ==
  [i \in 1..maxLines |->
     IF i = maxLines THEN EllipsisLine(wrapped[i + 1], maxChars) ELSE wrapped[i]]

\* clipped = wrapped.slice(0, maxLines) with its last line replaced; the
\* caller has established Len(wrapped) > maxLines >= 1
ClipLines(wrapped, maxChars, maxLines) ==
  [i \in 1..maxLines |->
     IF i = maxLines THEN EllipsisLine(wrapped[i], maxChars) ELSE wrapped[i]]

\* clipped[-1] is undefined when maxLines = 0, and last.length throws
ClipThrows(wrapped, maxLines) == Len(wrapped) > maxLines /\ maxLines = 0

\* the whole loop, for the callers that need the value only
RECURSIVE GreedyWrap(_, _, _)
GreedyWrap(wrapped, rest, maxChars) ==
  IF Len(rest) > maxChars
  THEN GreedyWrap(Append(wrapped, WrapLine(rest, maxChars)),
                  WrapRest(rest, maxChars), maxChars)
  ELSE WrapTail(wrapped, rest)

\* wrapPdfCellText for maxChars >= 1 and maxLines >= 1
wrapPdfCellText(input, maxChars, maxLines, emptyPlaceholder) ==
  LET safe == WrapSafe(input)
      wrapped == GreedyWrap(<<>>, safe, maxChars)
  IN  IF safe = "" THEN <<emptyPlaceholder>>
      ELSE IF Len(wrapped) <= maxLines THEN wrapped
      ELSE ClipLines(wrapped, maxChars, maxLines)

(***************************************************************************)
(* One call of wrapPdfCellText, one action per loop iteration.             *)
(***************************************************************************)
WrapAlphabet == {"a", "b", " "}

RECURSIVE StringsUpTo(_, _)
StringsUpTo(alphabet, n) ==
  IF n = 0 THEN {""}
  ELSE LET shorter == StringsUpTo(alphabet, n - 1)
       IN  shorter \cup {s \o c : s \in shorter, c \in alphabet}

\* texts with the characters the sanitizer rewrites, and texts long enough
\* for a short line followed by further lines
WrapSpecialTexts ==
  {"ab abcd", "ab abcd ab", "a\tb", "a\r\nb", "\n", "a\rb(b)", "ab  \t ab ab"}

WrapTexts == StringsUpTo(WrapAlphabet, MaxTextLen) \cup WrapSpecialTexts

WrapPlaceholders == {"", "-", "none"}

WrapIdle ==
  [pc |-> "idle", input |-> "", maxChars |-> 1, maxLines |-> 1,
   emptyPlaceholder |-> "", rest |-> "", wrapped |-> <<>>, result |-> <<>>]

PaginationIdle ==
  [pc |-> "idle", rows |-> <<>>, index |-> 0, current |-> <<>>,
   usedHeight |-> 0, pages |-> <<>>]

SimplePdfIdle ==
  [pc |-> "idle", title |-> "", lines |-> <<>>, pages |-> <<>>,
   pageObjectIds |-> <<>>, contentObjectIds |-> <<>>, fontObjectId |-> 0,
   objectCount |-> 0, streams |-> <<>>, objectBodies |-> <<>>, pdf |-> "",
   offsets |-> <<0>>, id |-> 0, xrefOffset |-> 0, error |-> ""]

ReportPdfIdle ==
  [pc |-> "idle", args |-> <<>>, rows |-> <<>>, pages |-> <<>>,
   generatedAtLabel |-> "", pageObjectIds |-> <<>>, contentObjectIds |-> <<>>,
   regularFontObjectId |-> 0, boldFontObjectId |-> 0, objectCount |-> 0,
   streams |-> <<>>, objectBodies |-> <<>>, pdf |-> "", offsets |-> <<0>>,
   id |-> 0, xrefOffset |-> 0, error |-> ""]

WrapInit ==
  /\ wrapCall \in
       {[pc |-> "call", input |-> t, maxChars |-> c, maxLines |-> l,
         emptyPlaceholder |-> e, rest |-> "", wrapped |-> <<>>, result |-> <<>>] :
          t \in WrapTexts, c \in 1..MaxWrapChars, l \in 0..MaxWrapLines,
          e \in WrapPlaceholders}
  /\ pagination = PaginationIdle
  /\ simplePdf = SimplePdfIdle
  /\ reportPdf = ReportPdfIdle
  /\ OtherCallsIdle

\* lines 534-540: sanitize, return the placeholder for a blank text
WrapBegin ==
  /\ wrapCall.pc = "call"
  /\ LET safe == WrapSafe(wrapCall.input)
     IN  wrapCall' =
           IF safe = ""
           THEN [wrapCall EXCEPT !.pc = "done",
                                 !.result = <<wrapCall.emptyPlaceholder>>]
           ELSE [wrapCall EXCEPT !.pc = "loop", !.rest = safe]
  /\ UNCHANGED <<pagination, simplePdf, reportPdf, otherCalls>>

\* lines 542-550: one iteration of the while loop
WrapIterate ==
  /\ wrapCall.pc = "loop"
  /\ Len(wrapCall.rest) > wrapCall.maxChars
  /\ wrapCall' =
       [wrapCall EXCEPT
          !.wrapped = Append(@, WrapLine(wrapCall.rest, wrapCall.maxChars)),
          !.rest = WrapRest(wrapCall.rest, wrapCall.maxChars)]
  /\ UNCHANGED <<pagination, simplePdf, reportPdf, otherCalls>>

\* lines 552-568: push the tail, clip to maxLines, return
WrapFinish ==
  /\ wrapCall.pc = "loop"
  /\ Len(wrapCall.rest) <= wrapCall.maxChars
  /\ LET wrapped == WrapTail(wrapCall.wrapped, wrapCall.rest)
     IN  wrapCall' =
           IF Len(wrapped) <= wrapCall.maxLines
           THEN [wrapCall EXCEPT !.pc = "done", !.wrapped = wrapped,
                                 !.rest = "", !.result = wrapped]
           ELSE IF ClipThrows(wrapped, wrapCall.maxLines)
           THEN [wrapCall EXCEPT !.pc = "threw", !.wrapped = wrapped, !.rest = ""]
           ELSE [wrapCall EXCEPT
                   !.pc = "done", !.wrapped = wrapped, !.rest = "",
                   !.result = ClipLines(wrapped, wrapCall.maxChars, wrapCall.maxLines)]
  /\ UNCHANGED <<pagination, simplePdf, reportPdf, otherCalls>>

WrapNext == WrapBegin \/ WrapIterate \/ WrapFinish

SpecWrap == WrapInit /\ [][WrapNext]_vars

WrapReturned == wrapCall.pc \in {"done", "threw"}

\* the greedy wrap ran and needed more lines than maxLines
WrapOverflowed == Len(wrapCall.wrapped) > wrapCall.maxLines

LinesWithin(lines, maxChars) == \A i \in 1..Len(lines) : Len(lines[i]) <= maxChars

\* C9 as stated: for every text, maxChars and maxLines the call returns
\* between 1 and maxLines lines, none longer than maxChars.
C9_AnyArgumentsBounded ==
  WrapReturned =>
    /\ wrapCall.pc = "done"
    /\ Len(wrapCall.result) >= 1
    /\ Len(wrapCall.result) <= wrapCall.maxLines
    /\ LinesWithin(wrapCall.result, wrapCall.maxChars)

\* C9 amended: when maxChars >= 3, maxLines >= 1 and the placeholder is no
\* longer than maxChars, the call returns between 1 and maxLines lines and
\* every line, the clipped line with its ellipsis included, has at most
\* maxChars characters.
C9_WrapBounded ==
  (/\ WrapReturned
   /\ wrapCall.maxChars >= 3
   /\ wrapCall.maxLines >= 1
   /\ Len(wrapCall.emptyPlaceholder) <= wrapCall.maxChars) =>
    /\ wrapCall.pc = "done"
    /\ Len(wrapCall.result) >= 1
    /\ Len(wrapCall.result) <= wrapCall.maxLines
    /\ LinesWithin(wrapCall.result, wrapCall.maxChars)

\* a clipped wrap whose last line, ellipsis included, fills maxChars exactly
C9_Witness ==
  /\ wrapCall.pc = "done"
  /\ wrapCall.maxChars >= 4
  /\ wrapCall.maxLines >= 2
  /\ WrapOverflowed
  /\ Len(wrapCall.result) = wrapCall.maxLines
  /\ Len(wrapCall.result[wrapCall.maxLines]) = wrapCall.maxChars

IsPrefixPlusEllipsis(line, greedyLine) ==
  \E k \in 0..Len(greedyLine) : line = SubSeq(greedyLine, 1, k) \o "..."

PDF_PAGE_WIDTH == 842

PDF_PAGE_HEIGHT == 595

PDF_MARGIN_X == 30

PDF_MARGIN_TOP == 30

PDF_MARGIN_BOTTOM == 30

PDF_LINE_HEIGHT == 12

PDF_TITLE_OFFSET == 22

PDF_MAX_LINE_LENGTH == 150

REPORT_TABLE_HEADER_HEIGHT == 18

REPORT_TABLE_TOP_Y == PDF_PAGE_HEIGHT - 204

REPORT_TABLE_BOTTOM_Y == 34

REPORT_ROW_LINE_HEIGHT_HUNDREDTHS == 880

\* usableHeight that leaves out the bottom margin
usableHeightToPageBottom ==
  100 * (REPORT_TABLE_TOP_Y - REPORT_TABLE_HEADER_HEIGHT)

\* const usableHeight = REPORT_TABLE_TOP_Y - REPORT_TABLE_HEADER_HEIGHT - REPORT_TABLE_BOTTOM_Y
usableHeight ==
  100 * (REPORT_TABLE_TOP_Y - REPORT_TABLE_HEADER_HEIGHT - REPORT_TABLE_BOTTOM_Y)

(***************************************************************************)
(* paginateEngagementReportRows                                            *)
(***************************************************************************)
\* PageBreakNeeded without the test that the current page holds a row
PageBreakOnEmptyPage(current, usedHeight, row) ==
  usedHeight + row.rowHeight > usableHeight

\* if (current.length > 0 && usedHeight + row.rowHeight > usableHeight)
PageBreakNeeded(current, usedHeight, row) ==
  /\ Len(current) > 0
  /\ usedHeight + row.rowHeight > usableHeight

\* PagesAfterRow that starts the new page without pushing the finished one
PagesAfterRowDropsPage(pages, current, usedHeight, row) == pages

\* pages after one iteration of the for loop
PagesAfterRow(pages, current, usedHeight, row) ==
  IF PageBreakNeeded(current, usedHeight, row) THEN Append(pages, current) ELSE pages

\* current after one iteration of the for loop
CurrentAfterRow(current, usedHeight, row) ==
  IF PageBreakNeeded(current, usedHeight, row) THEN <<row>> ELSE Append(current, row)

\* UsedHeightAfterRow that does not reset usedHeight on a new page
UsedHeightAfterRowKeepsSum(current, usedHeight, row) == usedHeight + row.rowHeight

\* usedHeight after one iteration of the for loop
UsedHeightAfterRow(current, usedHeight, row) ==
  IF PageBreakNeeded(current, usedHeight, row)
  THEN row.rowHeight
  ELSE usedHeight + row.rowHeight

\* lines 696-700: the last page, an empty one when there is no row at all
PagesAtReturn(pages, current) ==
  IF current = <<>> THEN Append(pages, <<>>) ELSE Append(pages, current)

RECURSIVE PaginateFrom(_, _, _, _)
PaginateFrom(rows, pages, current, usedHeight) ==
  IF rows = <<>> THEN PagesAtReturn(pages, current)
  ELSE PaginateFrom(Tail(rows),
                    PagesAfterRow(pages, current, usedHeight, Head(rows)),
                    CurrentAfterRow(current, usedHeight, Head(rows)),
                    UsedHeightAfterRow(current, usedHeight, Head(rows)))

paginateEngagementReportRows(rows) == PaginateFrom(rows, <<>>, <<>>, 0)

(***************************************************************************)
(* One call of paginateEngagementReportRows, one action per row.           *)
(***************************************************************************)
\* row heights: the heights prepareEngagementReportRows gives to rows of one
\* and three lines, half the usable height, the usable height and a height
\* above it
RowHeightSamples == {1680, 3440, 16950, 33900, 34000}

\* a long report of three-line rows, which needs several pages
LongReportRows == 20

SeqsUpTo(S, n) == UNION {[1..k -> S] : k \in 0..n}

PaginationInputs ==
  SeqsUpTo(RowHeightSamples, MaxRows) \cup {[i \in 1..LongReportRows |-> 3440]}

PaginationInit ==
  /\ pagination \in
       {[pc |-> "loop",
         rows |-> [i \in 1..Len(heights) |-> [id |-> i, rowHeight |-> heights[i]]],
         index |-> 0, current |-> <<>>, usedHeight |-> 0, pages |-> <<>>] :
          heights \in PaginationInputs}
  /\ wrapCall = WrapIdle
  /\ simplePdf = SimplePdfIdle
  /\ reportPdf = ReportPdfIdle
  /\ OtherCallsIdle

\* lines 685-694: one iteration of the for loop
PaginateRow ==
  /\ pagination.pc = "loop"
  /\ pagination.index < Len(pagination.rows)
  /\ LET row == pagination.rows[pagination.index + 1]
         p == pagination
     IN  pagination' =
           [p EXCEPT
              !.index = @ + 1,
              !.pages = PagesAfterRow(p.pages, p.current, p.usedHeight, row),
              !.current = CurrentAfterRow(p.current, p.usedHeight, row),
              !.usedHeight = UsedHeightAfterRow(p.current, p.usedHeight, row)]
  /\ UNCHANGED <<wrapCall, simplePdf, reportPdf, otherCalls>>

\* lines 696-702: push the last page and return
PaginateReturn ==
  /\ pagination.pc = "loop"
  /\ pagination.index = Len(pagination.rows)
  /\ pagination' =
       [pagination EXCEPT
          !.pc = "done",
          !.pages = PagesAtReturn(pagination.pages, pagination.current)]
  /\ UNCHANGED <<wrapCall, simplePdf, reportPdf, otherCalls>>

PaginationNext == PaginateRow \/ PaginateReturn

SpecPaginate == PaginationInit /\ [][PaginationNext]_vars

RECURSIVE Flatten(_)
Flatten(pages) ==
  IF pages = <<>> THEN <<>> ELSE Head(pages) \o Flatten(Tail(pages))

RECURSIVE SumHeights(_)
SumHeights(rows) ==
  IF rows = <<>> THEN 0 ELSE Head(rows).rowHeight + SumHeights(Tail(rows))

\* C6: the pages returned by paginateEngagementReportRows, concatenated in
\* page order, are exactly the input rows: each row once, unchanged, in order.
C6_PagesPartitionRows ==
  pagination.pc = "done" =>
    /\ Flatten(pagination.pages) = pagination.rows
    /\ Len(Flatten(pagination.pages)) = Len(pagination.rows)

\* rows were carried over a page boundary
C6_Witness ==
  /\ pagination.pc = "done"
  /\ Len(pagination.pages) >= 3
  /\ Len(pagination.rows) > Len(pagination.pages)

\* C7: a returned page of two or more rows is no higher than usableHeight,
\* a page higher than usableHeight holds exactly one row, and no page is
\* empty when there is an input row.
C7_PagesFitOrSingleRow ==
  pagination.pc = "done" =>
    \A k \in 1..Len(pagination.pages) :
      LET page == pagination.pages[k]
      IN  /\ Len(page) >= 2 => SumHeights(page) <= usableHeight
          /\ SumHeights(page) > usableHeight => Len(page) = 1
          /\ pagination.rows # <<>> => page # <<>>

\* an oversized row alone on its page, between pages of several rows
C7_Witness ==
  /\ pagination.pc = "done"
  /\ \E k \in 1..Len(pagination.pages) :
       /\ Len(pagination.pages[k]) = 1
       /\ SumHeights(pagination.pages[k]) > usableHeight
  /\ \E k \in 1..Len(pagination.pages) :
       /\ Len(pagination.pages[k]) >= 2
       /\ SumHeights(pagination.pages[k]) = usableHeight

(***************************************************************************)
(* wrapPdfLines and buildPdfPageStream                                     *)
(***************************************************************************)
\* lines 278-281: the cut position of one iteration of the line wrap loop
LineCut(rest) ==
  LET cut == LastIndexOf(rest, " ", PDF_MAX_LINE_LENGTH)
  IN  IF cut < FloorPercent(PDF_MAX_LINE_LENGTH, 50) THEN PDF_MAX_LINE_LENGTH ELSE cut

\* lines 276-288: the while loop and the push of what is left
RECURSIVE LineWrapLoop(_, _)
LineWrapLoop(wrapped, rest) ==
  IF Len(rest) > PDF_MAX_LINE_LENGTH
  THEN LineWrapLoop(Append(wrapped, TrimEnd(Slice(rest, 0, LineCut(rest)))),
                    TrimStart(SliceFrom(rest, LineCut(rest))))
  ELSE IF rest # "" THEN Append(wrapped, rest) ELSE wrapped

\* lines 264-288: the lines pushed for one raw line
WrapRawLine(rawLine) ==
  LET line == toPdfSafeAscii(rawLine)
  IN  IF line = "" THEN <<"">>
      ELSE IF Len(line) <= PDF_MAX_LINE_LENGTH THEN <<line>>
      ELSE LineWrapLoop(<<>>, line)

\* lists[lo] + ... + lists[hi]
RECURSIVE AppendRange(_, _, _)
AppendRange(lists, lo, hi) ==
  IF lo > hi THEN <<>>
  ELSE IF lo = hi THEN lists[lo]
  ELSE AppendRange(lists, lo, (lo + hi) \div 2)
         \o AppendRange(lists, (lo + hi) \div 2 + 1, hi)

AppendAll(lists) == AppendRange(lists, 1, Len(lists))

wrapPdfLines(lines) == AppendAll([i \in 1..Len(lines) |-> WrapRawLine(lines[i])])

\* the array commands of buildPdfPageStream before the join
PdfPageCommands(title, lines) ==
  LET titleY == PDF_PAGE_HEIGHT - PDF_MARGIN_TOP
      lineY(i) == titleY - PDF_TITLE_OFFSET - (i - 1) * PDF_LINE_HEIGHT
      Tm(y) == "1 0 0 1 " \o NumToString(PDF_MARGIN_X) \o " " \o NumToString(y) \o " Tm"
      Tj(text) == "(" \o escapePdfText(text) \o ") Tj"
  IN  <<"BT", "/F1 13 Tf", Tm(titleY), Tj(title), "/F1 9 Tf">>
        \o AppendAll([i \in 1..Len(lines) |-> <<Tm(lineY(i)), Tj(lines[i])>>])
        \o <<"ET">>

buildPdfPageStream(title, lines) == JoinLines(PdfPageCommands(title, lines))

(***************************************************************************)
(* The object graph and its serialization (buildSimplePdf lines 338-404,   *)
(* buildPdfWithTwoFonts lines 1139-1209; the two functions hold the same   *)
(* serialization code).                                                    *)
(***************************************************************************)
\* linesPerPage of buildSimplePdf
linesPerPage ==
  Max(1, (PDF_PAGE_HEIGHT - PDF_MARGIN_TOP - PDF_MARGIN_BOTTOM - PDF_TITLE_OFFSET)
           \div PDF_LINE_HEIGHT)

\* lines 331-333: the for loop that pushes slices of linesPerPage lines
RECURSIVE SimplePagesFrom(_, _, _)
SimplePagesFrom(bodyLines, start, pages) ==
  IF start < Len(bodyLines)
  THEN SimplePagesFrom(bodyLines, start + linesPerPage,
                       Append(pages, SubSeq(bodyLines, start + 1,
                                            Min(start + linesPerPage, Len(bodyLines)))))
  ELSE pages

\* SimplePages without the empty page pushed when the loop pushed none
SimplePagesOfLoopOnly(bodyLines) == SimplePagesFrom(bodyLines, 0, <<>>)

\* lines 330-336: the pages of the loop, one empty page for no line
SimplePages(bodyLines) ==
  LET pages == SimplePagesFrom(bodyLines, 0, <<>>)
  IN  IF pages = <<>> THEN << <<>> >> ELSE pages

\* NextObjectIdAfterPages leaving one number unused before the fonts
NextObjectIdSkipsOne(pageCount) == 4 + 2 * pageCount

\* the id pushed on pageObjectIds by iteration index (from 0) of the loop
\* that starts at nextObjectId = 3 and takes two ids per page
PageObjectIdAt(index) == 3 + 2 * index

\* the id pushed on contentObjectIds by iteration index (from 0)
ContentObjectIdAt(index) == PageObjectIdAt(index) + 1

PageObjectIds(pageCount) == [i \in 1..pageCount |-> PageObjectIdAt(i - 1)]

ContentObjectIds(pageCount) == [i \in 1..pageCount |-> ContentObjectIdAt(i - 1)]

\* nextObjectId after the loop
NextObjectIdAfterPages(pageCount) == 3 + 2 * pageCount

IdRef(id) == NumToString(id) \o " 0 R"

CatalogBody == "<< /Type /Catalog /Pages 2 0 R >>"

\* PagesBody listing the content streams as the kids
PagesBodyListsContents(pageObjectIds, pageCount) ==
  "<< /Type /Pages /Kids ["
    \o Concat([i \in 1..Len(pageObjectIds) |->
                 IF i = 1 THEN IdRef(pageObjectIds[i] + 1)
                 ELSE " " \o IdRef(pageObjectIds[i] + 1)])
    \o "] /Count " \o NumToString(pageCount) \o " >>"

PagesBody(pageObjectIds, pageCount) ==
  "<< /Type /Pages /Kids ["
    \o Concat([i \in 1..Len(pageObjectIds) |->
                 IF i = 1 THEN IdRef(pageObjectIds[i]) ELSE " " \o IdRef(pageObjectIds[i])])
    \o "] /Count " \o NumToString(pageCount) \o " >>"

MediaBox ==
  "/MediaBox [0 0 " \o NumToString(PDF_PAGE_WIDTH) \o " " \o NumToString(PDF_PAGE_HEIGHT) \o "]"

\* the page object of buildSimplePdf
SimplePageBody(fontObjectId, contentObjectId) ==
  "<< /Type /Page /Parent 2 0 R " \o MediaBox
    \o " /Resources << /Font << /F1 " \o IdRef(fontObjectId) \o " >> >> /Contents "
    \o IdRef(contentObjectId) \o " >>"

\* the page object of buildPdfWithTwoFonts
TwoFontPageBody(regularFontObjectId, boldFontObjectId, contentObjectId) ==
  "<< /Type /Page /Parent 2 0 R " \o MediaBox
    \o " /Resources << /Font << /F1 " \o IdRef(regularFontObjectId)
    \o " /F2 " \o IdRef(boldFontObjectId) \o " >> >> /Contents "
    \o IdRef(contentObjectId) \o " >>"

\* StreamLength counting the line feed before "endstream" too
StreamLengthWithLineFeed(stream) == Len(stream) + 1

\* Buffer.byteLength(stream, "ascii"): one byte per character
StreamLength(stream) == Len(stream)

ContentBody(stream) ==
  "<< /Length " \o NumToString(StreamLength(stream)) \o " >>\nstream\n"
    \o stream \o "\nendstream"

HelveticaBody == "<< /Type /Font /Subtype /Type1 /BaseFont /Helvetica >>"

HelveticaBoldBody == "<< /Type /Font /Subtype /Type1 /BaseFont /Helvetica-Bold >>"

\* objectBodies after the calls of set() for the pages: a later set() of an
\* id replaces an earlier one
PageBodies(pageObjectIds, contentObjectIds, pageBodyAt, streams) ==
  [id \in {pageObjectIds[i] : i \in 1..Len(streams)}
            \cup {contentObjectIds[i] : i \in 1..Len(streams)} |->
     LET last == SetMax({i \in 1..Len(streams) :
                           pageObjectIds[i] = id \/ contentObjectIds[i] = id})
     IN  IF contentObjectIds[last] = id THEN ContentBody(streams[last])
         ELSE pageBodyAt[last]]

\* `${id} 0 obj\n${body}\nendobj\n`
ObjectText(id, body) == NumToString(id) \o " 0 obj\n" \o body \o "\nendobj\n"

\* OffsetOfNextObject leaving the header line of the file out
OffsetWithoutHeader(pdf) == Len(pdf) - Len("%PDF-1.4\n")

\* offsets[id] = Buffer.byteLength(pdf, "ascii"), taken before the object is appended
OffsetOfNextObject(pdf) == Len(pdf)

\* const xrefOffset = Buffer.byteLength(pdf, "ascii"), taken before "xref" is appended
OffsetOfXref(pdf) == Len(pdf)

XrefHead(objectCount) ==
  "xref\n0 " \o NumToString(objectCount + 1) \o "\n" \o "0000000000 65535 f \n"

\* XrefEntry without the space that makes the entry 20 bytes long
XrefEntryOf19Bytes(offset) == PadStartZero(NumToString(offset), 10) \o " 00000 n\n"

XrefEntry(offset) == PadStartZero(NumToString(offset), 10) \o " 00000 n \n"

TrailerText(objectCount, xrefOffset) ==
  "trailer\n<< /Size " \o NumToString(objectCount + 1) \o " /Root 1 0 R >>\n"
    \o "startxref\n" \o NumToString(xrefOffset) \o "\n%%EOF\n"

PdfHeader == "%PDF-1.4\n"

(***************************************************************************)
(* buildSimplePdf                                                          *)
(***************************************************************************)
SimpleTitles == {"Quick Test", "Co?t (Ops)\\ \t"}

LongLine == Concat([i \in 1..16 |-> "lorem ipsum "])

SimpleLineSamples == {"", "Line 1", "a (b) \\ c", LongLine}

SimpleLineLists ==
  SeqsUpTo(SimpleLineSamples, MaxPdfLines)
    \cup {[i \in 1..n |-> "Line 1"] : n \in {linesPerPage, linesPerPage + 1, 2 * linesPerPage + 1}}

SimpleInit ==
  /\ simplePdf \in
       {[SimplePdfIdle EXCEPT !.pc = "call", !.title = t, !.lines = l] :
          t \in SimpleTitles, l \in SimpleLineLists}
  /\ wrapCall = WrapIdle
  /\ pagination = PaginationIdle
  /\ reportPdf = ReportPdfIdle
  /\ OtherCallsIdle

\* lines 318-348: wrap the lines, cut them in pages, number the objects
SimpleLayout ==
  /\ simplePdf.pc = "call"
  /\ LET pages == SimplePages(wrapPdfLines(simplePdf.lines))
         fontObjectId == NextObjectIdAfterPages(Len(pages))
     IN  simplePdf' =
           [simplePdf EXCEPT
              !.pc = "bodies",
              !.pages = pages,
              !.pageObjectIds = PageObjectIds(Len(pages)),
              !.contentObjectIds = ContentObjectIds(Len(pages)),
              !.fontObjectId = fontObjectId,
              !.objectCount = fontObjectId]
  /\ UNCHANGED <<wrapCall, pagination, reportPdf, otherCalls>>

SimplePageTitle(title, index, pageCount) ==
  IF pageCount > 1
  THEN title \o " (Page " \o NumToString(index + 1) \o "/" \o NumToString(pageCount) \o ")"
  ELSE title

SimpleStreams(title, pages) ==
  [i \in 1..Len(pages) |->
     buildPdfPageStream(SimplePageTitle(title, i - 1, Len(pages)), pages[i])]

\* lines 350-383: fill objectBodies, start the file
SimpleBodies ==
  /\ simplePdf.pc = "bodies"
  /\ LET b == simplePdf
         pageBody(i) == SimplePageBody(b.fontObjectId, b.contentObjectIds[i])
     IN  simplePdf' =
           [b EXCEPT
              !.pc = "objects",
              !.streams = SimpleStreams(b.title, b.pages),
              !.objectBodies =
                 (b.fontObjectId :> HelveticaBody)
                   @@ PageBodies(b.pageObjectIds, b.contentObjectIds,
                                 [i \in 1..Len(b.pages) |-> pageBody(i)],
                                 SimpleStreams(b.title, b.pages))
                   @@ (2 :> PagesBody(b.pageObjectIds, Len(b.pages)))
                   @@ (1 :> CatalogBody),
              !.pdf = PdfHeader,
              !.offsets = <<0>>,
              !.id = 1]
  /\ UNCHANGED <<wrapCall, pagination, reportPdf, otherCalls>>

\* objectBodies.get(id), printed as a template literal prints it
BodyOf(objectBodies, id) ==
  IF id \in DOMAIN objectBodies THEN objectBodies[id] ELSE "undefined"

\* BodyMissing of a loop without the check of the body
BodyMissingNeverChecked(objectBodies, id) == FALSE

\* !body: objectBodies.get(id) is undefined or ""
BodyMissing(objectBodies, id) ==
  id \notin DOMAIN objectBodies \/ objectBodies[id] = ""

\* `Missing PDF object body for id ${id}.`
MissingBodyMessage(id) == "Missing PDF object body for id " \o NumToString(id) \o "."

\* lines 385-392: one iteration of the loop that writes the objects
SimpleWriteObject ==
  /\ simplePdf.pc = "objects"
  /\ simplePdf.id <= simplePdf.objectCount
  /\ simplePdf' =
       IF BodyMissing(simplePdf.objectBodies, simplePdf.id)
       THEN [simplePdf EXCEPT !.pc = "threw", !.error = MissingBodyMessage(simplePdf.id)]
       ELSE [simplePdf EXCEPT
               !.offsets = Append(@, OffsetOfNextObject(simplePdf.pdf)),
               !.pdf = @ \o ObjectText(simplePdf.id, BodyOf(simplePdf.objectBodies, simplePdf.id)),
               !.id = @ + 1]
  /\ UNCHANGED <<wrapCall, pagination, reportPdf, otherCalls>>

\* lines 394-396: the head of the xref section and the free entry
SimpleWriteXrefHead ==
  /\ simplePdf.pc = "objects"
  /\ simplePdf.id > simplePdf.objectCount
  /\ simplePdf' =
       [simplePdf EXCEPT
          !.pc = "xref",
          !.xrefOffset = OffsetOfXref(simplePdf.pdf),
          !.pdf = @ \o XrefHead(simplePdf.objectCount),
          !.id = 1]
  /\ UNCHANGED <<wrapCall, pagination, reportPdf, otherCalls>>

\* lines 397-399: one iteration of the loop that writes the xref entries
SimpleWriteXrefEntry ==
  /\ simplePdf.pc = "xref"
  /\ simplePdf.id <= simplePdf.objectCount
  /\ simplePdf' =
       [simplePdf EXCEPT
          !.pdf = @ \o XrefEntry(simplePdf.offsets[simplePdf.id + 1]),
          !.id = @ + 1]
  /\ UNCHANGED <<wrapCall, pagination, reportPdf, otherCalls>>

\* lines 401-404: the trailer; the call returns the bytes of pdf
SimpleWriteTrailer ==
  /\ simplePdf.pc = "xref"
  /\ simplePdf.id > simplePdf.objectCount
  /\ simplePdf' =
       [simplePdf EXCEPT
          !.pc = "done",
          !.pdf = @ \o TrailerText(simplePdf.objectCount, simplePdf.xrefOffset)]
  /\ UNCHANGED <<wrapCall, pagination, reportPdf, otherCalls>>

SimpleNext ==
  \/ SimpleLayout
  \/ SimpleBodies
  \/ SimpleWriteObject
  \/ SimpleWriteXrefHead
  \/ SimpleWriteXrefEntry
  \/ SimpleWriteTrailer

SpecSimplePdf == SimpleInit /\ [][SimpleNext]_vars

(***************************************************************************)
(* Numbers in the content stream of the report.  A number is held in       *)
(* hundredths; round2 of such a number is the number itself.               *)
(***************************************************************************)
\* the digits after the decimal point that String(n) prints
FractionText(hundredths) ==
  IF hundredths % 100 = 0 THEN ""
  ELSE IF hundredths % 10 = 0 THEN "." \o NumToString((hundredths % 100) \div 10)
  ELSE "." \o PadStartZero(NumToString(hundredths % 100), 2)

\* `${round2(value)}`
FormatNumber(hundredths) ==
  IF hundredths < 0
  THEN "-" \o NumToString((-hundredths) \div 100) \o FractionText(-hundredths)
  ELSE NumToString(hundredths \div 100) \o FractionText(hundredths)

\* the integer part with the en-US thousands separators
RECURSIVE GroupThousands(_)
GroupThousands(n) ==
  IF n < 1000 THEN NumToString(n)
  ELSE GroupThousands(n \div 1000) \o "," \o PadStartZero(NumToString(n % 1000), 3)

\* round2(value).toLocaleString("en-US", { maximumFractionDigits: 2 })
formatReportNumber(hundredths) ==
  IF hundredths < 0
  THEN "-" \o GroupThousands((-hundredths) \div 100) \o FractionText(-hundredths)
  ELSE GroupThousands(hundredths \div 100) \o FractionText(hundredths)

FormatColor(color) ==
  FormatNumber(color[1]) \o " " \o FormatNumber(color[2]) \o " " \o FormatNumber(color[3])

(***************************************************************************)
(* Drawing primitives: each gives the commands it pushes.                  *)
(***************************************************************************)
DefaultTextColor == <<10, 17, 28>>

DefaultLineColor == <<78, 83, 90>>

drawPdfText(text, x, y, size, font, color) ==
  <<"BT",
    "/" \o font \o " " \o FormatNumber(size) \o " Tf",
    FormatColor(color) \o " rg",
    "1 0 0 1 " \o FormatNumber(x) \o " " \o FormatNumber(y) \o " Tm",
    "(" \o escapePdfText(text) \o ") Tj",
    "ET">>

\* the default width 0.6 is the only one used
drawPdfLine(x1, y1, x2, y2, color) ==
  <<FormatColor(color) \o " RG",
    FormatNumber(60) \o " w",
    FormatNumber(x1) \o " " \o FormatNumber(y1) \o " m",
    FormatNumber(x2) \o " " \o FormatNumber(y2) \o " l",
    "S">>

drawPdfFillRect(x, y, width, height, color) ==
  <<FormatColor(color) \o " rg",
    FormatNumber(x) \o " " \o FormatNumber(y) \o " " \o FormatNumber(width)
      \o " " \o FormatNumber(height) \o " re",
    "f">>

(***************************************************************************)
(* The table of the report.                                                *)
(***************************************************************************)
REPORT_COLUMNS ==
  <<[key |-> "rowLabel", label |-> "#", width |-> 3000, align |-> "center"],
    [key |-> "scenario", label |-> "Scenario", width |-> 19600, align |-> "left"],
    [key |-> "size", label |-> "Size", width |-> 4600, align |-> "center"],
    [key |-> "service", label |-> "Service", width |-> 18800, align |-> "left"],
    [key |-> "section", label |-> "Section", width |-> 17600, align |-> "left"],
    [key |-> "days", label |-> "Days", width |-> 7600, align |-> "right"]>>

REPORT_TABLE_X == 32

REPORT_ROW_FONT_SIZE == 8

REPORT_CELL_PADDING_X == 4

\* toPdfSafeAscii(text).length * (fontSize * 0.48)
estimatePdfTextWidth(text, fontSize) == Len(toPdfSafeAscii(text)) * ((fontSize * 48) \div 100)

resolveCellTextX(colX, colWidth, align, text, fontSize, padding) ==
  IF align = "left" THEN colX + padding
  ELSE IF align = "right"
  THEN colX + colWidth - estimatePdfTextWidth(text, fontSize) - padding
  ELSE colX + (colWidth - estimatePdfTextWidth(text, fontSize)) \div 2

\* formatReportNumber(record.key): round2 of the undefined value of a field
\* the record does not hold is NaN, which toLocaleString prints as "NaN"
NumberFieldText(record, key) ==
  IF key \in DOMAIN record THEN formatReportNumber(record[key]) ELSE "NaN"

\* an optional value is <<>> when null or undefined and <<v>> otherwise
OrElse(optional, default) == IF optional = <<>> THEN default ELSE optional[1]

\* serviceDetailsByRow?.[row.row] ?? []: the details given for a row number
DetailsOfRow(args, rowNumber) ==
  IF rowNumber \in DOMAIN args.serviceDetailsByRow
  THEN args.serviceDetailsByRow[rowNumber]
  ELSE <<>>

FallbackSummary(args, row) ==
  IF row.row \in DOMAIN args.serviceSummaryByRow
  THEN args.serviceSummaryByRow[row.row]
  ELSE IF row.size = "Custom" THEN "Custom service allocation" ELSE "Preset package"

\* ReportRowsOfScenario that repeats the row label, name and size on every
\* service row
ReportRowsOfScenarioLabelsAll(args, row) ==
  LET details == DetailsOfRow(args, row.row)
  IN  (IF details = <<>>
       THEN <<[rowLabel |-> NumToString(row.row), scenario |-> row.name,
               size |-> row.size, service |-> FallbackSummary(args, row),
               section |-> "-", days |-> row.selectedDays, variant |-> "empty"]>>
       ELSE [index \in 1..Len(details) |->
               [rowLabel |-> NumToString(row.row),
                scenario |-> row.name,
                size |-> row.size,
                service |-> details[index].serviceName,
                section |-> OrElse(details[index].sectionName, "-"),
                days |-> details[index].days,
                variant |-> "service"]])
        \o <<[rowLabel |-> "", scenario |-> "", size |-> "",
              service |-> "Scenario Total", section |-> row.name,
              days |-> row.selectedDays, variant |-> "scenarioTotal"]>>

\* lines 606-645: the report rows pushed for one row of the result
ReportRowsOfScenario(args, row) ==
  LET details == DetailsOfRow(args, row.row)
  IN  (IF details = <<>>
       THEN <<[rowLabel |-> NumToString(row.row), scenario |-> row.name,
               size |-> row.size, service |-> FallbackSummary(args, row),
               section |-> "-", days |-> row.selectedDays, variant |-> "empty"]>>
       ELSE [index \in 1..Len(details) |->
               [rowLabel |-> IF index = 1 THEN NumToString(row.row) ELSE "",
                scenario |-> IF index = 1 THEN row.name ELSE "",
                size |-> IF index = 1 THEN row.size ELSE "",
                service |-> details[index].serviceName,
                section |-> OrElse(details[index].sectionName, "-"),
                days |-> details[index].days,
                variant |-> "service"]])
        \o <<[rowLabel |-> "", scenario |-> "", size |-> "",
              service |-> "Scenario Total", section |-> row.name,
              days |-> row.selectedDays, variant |-> "scenarioTotal"]>>

\* lines 647-655: the row pushed after the loop, whatever the result holds
GrandTotalRow(args) ==
  [rowLabel |-> "", scenario |-> "", size |-> "", service |-> "Grand Total",
   section |-> "", days |-> args.result.totals.selectedDays, variant |-> "grandTotal"]

buildEngagementReportRows(args) ==
  AppendAll([i \in 1..Len(args.result.rows) |->
               ReportRowsOfScenario(args, args.result.rows[i])])
    \o <<GrandTotalRow(args)>>

\* row.name or detail.serviceName is undefined for some row of the result:
\* wrapPdfCellText hands it to toPdfSafeAscii, whose input.replace(...) throws
PrepareThrows(args) ==
  \E i \in 1..Len(args.result.rows) :
    \/ "name" \notin DOMAIN args.result.rows[i]
    \/ \E k \in 1..Len(DetailsOfRow(args, args.result.rows[i].row)) :
         "serviceName" \notin DOMAIN DetailsOfRow(args, args.result.rows[i].row)[k]

\* Math.max(16, 8 + lineCount * REPORT_ROW_LINE_HEIGHT)
RowHeightOf(lineCount) == Max(1600, 800 + lineCount * REPORT_ROW_LINE_HEIGHT_HUNDREDTHS)

PrepareRow(row) ==
  LET scenarioLines == wrapPdfCellText(row.scenario, 36, 3, "")
      serviceLines == wrapPdfCellText(row.service, 34, 3, "")
      sectionLines == wrapPdfCellText(row.section, 32, 3, "")
      lineCount == Max(Max(1, Len(scenarioLines)), Max(Len(serviceLines), Len(sectionLines)))
  IN  [rowLabel |-> row.rowLabel, scenario |-> row.scenario, size |-> row.size,
       service |-> row.service, section |-> row.section, days |-> row.days,
       variant |-> row.variant, scenarioLines |-> scenarioLines,
       serviceLines |-> serviceLines, sectionLines |-> sectionLines,
       rowHeight |-> RowHeightOf(lineCount)]

prepareEngagementReportRows(rows) == [i \in 1..Len(rows) |-> PrepareRow(rows[i])]

\* the sum of the widths of the first k columns
RECURSIVE WidthOfColumns(_)
WidthOfColumns(k) == IF k = 0 THEN 0 ELSE WidthOfColumns(k - 1) + REPORT_COLUMNS[k].width

\* REPORT_COLUMNS.reduce((sum, col) => sum + col.width, 0)
tableWidth == WidthOfColumns(Len(REPORT_COLUMNS))

tableX == 100 * REPORT_TABLE_X

tableRightX == tableX + tableWidth

tableTopY == 100 * REPORT_TABLE_TOP_Y

headerBottomY == 100 * (REPORT_TABLE_TOP_Y - REPORT_TABLE_HEADER_HEIGHT)

pageTop(below) == 100 * (PDF_PAGE_HEIGHT - below)

\* colX, headerX and gridX at column number k: the widths before it added up
ColumnX(k) == tableX + WidthOfColumns(k - 1)

CellTextColor == <<16, 22, 32>>

\* lines 983-1033: a wrapped cell, one text per non-empty line
WrappedCellCommands(lines, colX, rowTopY, bold) ==
  AppendAll([lineIndex \in 1..Len(lines) |->
    IF lines[lineIndex] = "" THEN <<>>
    ELSE drawPdfText(lines[lineIndex],
                     colX + 100 * REPORT_CELL_PADDING_X,
                     (rowTopY - 1000) - (lineIndex - 1) * REPORT_ROW_LINE_HEIGHT_HUNDREDTHS,
                     100 * REPORT_ROW_FONT_SIZE,
                     IF bold THEN "F2" ELSE "F1",
                     CellTextColor)])

\* lines 1034-1062: the cell of the columns rowLabel, size and days
PlainCellCommands(row, col, colX, rowBottomY) ==
  LET text == IF col.key = "days" THEN formatReportNumber(row.days)
              ELSE IF col.key = "size" THEN row.size
              ELSE row.rowLabel
      bold == \/ row.variant \in {"grandTotal", "scenarioTotal"}
              \/ col.key = "size"
              \/ (col.key = "days" /\ row.variant # "service")
  IN  drawPdfText(text,
                  resolveCellTextX(colX, col.width, col.align, text,
                                   100 * REPORT_ROW_FONT_SIZE, 100 * REPORT_CELL_PADDING_X),
                  rowBottomY + row.rowHeight \div 2 - 300,
                  100 * REPORT_ROW_FONT_SIZE,
                  IF bold THEN "F2" ELSE "F1",
                  CellTextColor)

\* lines 946-1077: one iteration of the loop over the rows of the page
RowCommands(row, index, rowTopY) ==
  LET rowBottomY == rowTopY - row.rowHeight
      total == row.variant \in {"grandTotal", "scenarioTotal"}
      fill == IF row.variant = "grandTotal"
              THEN drawPdfFillRect(tableX, rowBottomY, tableWidth, row.rowHeight, <<83, 92, 100>>)
              ELSE IF row.variant = "scenarioTotal"
              THEN drawPdfFillRect(tableX, rowBottomY, tableWidth, row.rowHeight, <<93, 97, 100>>)
              ELSE IF index % 2 = 1
              THEN drawPdfFillRect(tableX, rowBottomY, tableWidth, row.rowHeight, <<98, 99, 100>>)
              ELSE <<>>
      cell(k) ==
        LET col == REPORT_COLUMNS[k]
        IN  IF col.key = "scenario"
            THEN WrappedCellCommands(row.scenarioLines, ColumnX(k), rowTopY, total)
            ELSE IF col.key = "service"
            THEN WrappedCellCommands(row.serviceLines, ColumnX(k), rowTopY, total)
            ELSE IF col.key = "section"
            THEN WrappedCellCommands(row.sectionLines, ColumnX(k), rowTopY, total)
            ELSE PlainCellCommands(row, col, ColumnX(k), rowBottomY)
  IN  fill
        \o AppendAll([k \in 1..Len(REPORT_COLUMNS) |-> cell(k)])
        \o drawPdfLine(tableX, rowBottomY, tableRightX, rowBottomY, <<85, 89, 94>>)

NoRowsText == "No selected scenario rows to export."

\* lines 914-944: the body of a page that was given no row
EmptyBodyCommands ==
  LET emptyRowBottomY == headerBottomY - 1800
  IN  drawPdfFillRect(tableX, emptyRowBottomY, tableWidth, 1800, <<98, 99, 100>>)
        \o drawPdfText(NoRowsText, tableX + 800, emptyRowBottomY + 600, 820, "F1",
                       <<34, 43, 55>>)
        \o drawPdfLine(tableX, emptyRowBottomY, tableRightX, emptyRowBottomY, <<85, 89, 94>>)

\* rowTopY before the row number i (from 1) of the page
RowTopY(rows, i) == headerBottomY - SumHeights(SubSeq(rows, 1, i - 1))

\* rowTopY after the body
BodyBottomY(rows) ==
  IF rows = <<>> THEN headerBottomY - 1800 ELSE RowTopY(rows, Len(rows) + 1)

BodyCommands(rows) ==
  IF rows = <<>> THEN EmptyBodyCommands
  ELSE AppendAll([i \in 1..Len(rows) |-> RowCommands(rows[i], i - 1, RowTopY(rows, i))])

\* lines 786-910: title band, info box, totals band, column header band
HeadCommands(args, generatedAtLabel, pageIndex, pageCount) ==
  LET infoBoxY == pageTop(150)
      spread == args.spread
      totals == args.result.totals
      pageLabel == "Page " \o NumToString(pageIndex + 1) \o " of " \o NumToString(pageCount)
      planLine == wrapPdfCellText("Plan: " \o args.engagementName, 96, 1, "-")[1]
      headerCell(k) ==
        drawPdfText(REPORT_COLUMNS[k].label,
                    resolveCellTextX(ColumnX(k), REPORT_COLUMNS[k].width,
                                     REPORT_COLUMNS[k].align, REPORT_COLUMNS[k].label,
                                     800, 300),
                    headerBottomY + 500, 800, "F2", <<14, 24, 37>>)
  IN  drawPdfFillRect(tableX, pageTop(26), tableWidth, 300, <<4, 43, 82>>)
        \o drawPdfText("Max Success Plan Premium Services Quicksizer",
                       tableX, pageTop(43), 1500, "F2", <<5, 26, 52>>)
        \o drawPdfText(planLine, tableX, pageTop(58), 960, "F2", <<18, 27, 41>>)
        \o drawPdfText("Generated " \o generatedAtLabel \o " | " \o pageLabel,
                       tableX, pageTop(71), 830, "F1", <<34, 43, 55>>)
        \o drawPdfFillRect(tableX, infoBoxY, tableWidth, 6200, <<95, 98, 100>>)
        \o drawPdfText("Customer: " \o OrElse(args.customerName, "-"),
                       tableX + 800, infoBoxY + 4400, 850, "F2", DefaultTextColor)
        \o drawPdfText("Opportunity: " \o OrElse(args.opportunity, "-"),
                       tableX + 800, infoBoxY + 3100, 850, "F1", DefaultTextColor)
        \o drawPdfText("Spread %: Y1 " \o NumberFieldText(spread, "y1")
                         \o "  Y2 " \o NumberFieldText(spread, "y2")
                         \o "  Y3 " \o NumberFieldText(spread, "y3")
                         \o "  Y4 " \o NumberFieldText(spread, "y4")
                         \o "  Y5 " \o NumberFieldText(spread, "y5"),
                       tableX + 800, infoBoxY + 1800, 850, "F1", DefaultTextColor)
        \o drawPdfFillRect(tableX, infoBoxY + 200, tableWidth, 1200, <<90, 95, 100>>)
        \o drawPdfText("Totals: Days " \o NumberFieldText(totals, "selectedDays")
                         \o "  |  Y1 " \o NumberFieldText(totals, "y1")
                         \o "  Y2 " \o NumberFieldText(totals, "y2")
                         \o "  Y3 " \o NumberFieldText(totals, "y3")
                         \o "  Y4 " \o NumberFieldText(totals, "y4")
                         \o "  Y5 " \o NumberFieldText(totals, "y5"),
                       tableX + 800, infoBoxY + 500, 840, "F2", <<6, 29, 56>>)
        \o drawPdfFillRect(tableX, headerBottomY, tableWidth,
                           100 * REPORT_TABLE_HEADER_HEIGHT, <<91, 95, 100>>)
        \o AppendAll([k \in 1..Len(REPORT_COLUMNS) |-> headerCell(k)])

\* lines 1080-1132: the grid lines and the footer
FootCommands(rowTopY, pageIndex, pageCount) ==
  drawPdfLine(tableX, tableTopY, tableRightX, tableTopY, DefaultLineColor)
    \o drawPdfLine(tableX, headerBottomY, tableRightX, headerBottomY, DefaultLineColor)
    \o drawPdfLine(tableX, tableTopY, tableX, rowTopY, DefaultLineColor)
    \o AppendAll([k \in 1..Len(REPORT_COLUMNS) |->
                    drawPdfLine(ColumnX(k) + REPORT_COLUMNS[k].width, tableTopY,
                                ColumnX(k) + REPORT_COLUMNS[k].width, rowTopY,
                                DefaultLineColor)])
    \o drawPdfText("Generated by Max Success Plan Premium Services Quicksizer",
                   tableX, 1600, 780, "F1", <<44, 50, 60>>)
    \o drawPdfText("Page " \o NumToString(pageIndex + 1) \o " of " \o NumToString(pageCount),
                   tableRightX - 5800, 1600, 780, "F1", <<44, 50, 60>>)

\* the array commands of buildEngagementReportPageStream before the join
EngagementReportPageCommands(args, rows, generatedAtLabel, pageIndex, pageCount) ==
  HeadCommands(args, generatedAtLabel, pageIndex, pageCount)
    \o BodyCommands(rows)
    \o FootCommands(BodyBottomY(rows), pageIndex, pageCount)

buildEngagementReportPageStream(args, rows, generatedAtLabel, pageIndex, pageCount) ==
  JoinLines(EngagementReportPageCommands(args, rows, generatedAtLabel, pageIndex, pageCount))

(***************************************************************************)
(* buildEngagementReportPdf and buildPdfWithTwoFonts                       *)
(***************************************************************************)
\* a scenario row of the result together with the service details given for it
ScenarioSamples ==
  {[row |-> [row |-> 7, name |-> "Architecture", size |-> "M", selectedDays |-> 4000],
    details |-> <<[serviceName |-> "Architecture Point of View",
                   sectionName |-> <<"SAP Architecture">>, days |-> 4000]>>],
   [row |-> [row |-> 12, name |-> "Custom (Ops)", size |-> "Custom", selectedDays |-> 123450],
    details |-> <<>>],
   [row |-> [row |-> 3,
             name |-> "Safeguarding the digital transformation of a very large landscape with many systems, interfaces and extensions that all need attention",
             size |-> "L", selectedDays |-> 1250],
    details |-> [i \in 1..14 |->
                   [serviceName |-> "Technical Performance Optimization for Business Process Improvement",
                    sectionName |-> IF i = 1 THEN <<>> ELSE <<"Realize">>,
                    days |-> 25 * i]]]}

ReportArgs(scenarios, customerName) ==
  [engagementName |-> "Demo Plan",
   customerName |-> customerName,
   opportunity |-> <<"Q1">>,
   spread |-> [y1 |-> 4000, y2 |-> 3000, y3 |-> 2000, y4 |-> 1000, y5 |-> 0],
   result |-> [rows |-> [i \in 1..Len(scenarios) |-> scenarios[i].row],
               totals |-> [selectedDays |-> 128700, y1 |-> 51480, y2 |-> 38610,
                           y3 |-> 25740, y4 |-> 12870, y5 |-> 0]],
   serviceSummaryByRow |-> <<>>,
   serviceDetailsByRow |->
     [n \in {scenarios[i].row.row : i \in 1..Len(scenarios)} |->
        (CHOOSE sample \in ScenarioSamples : sample.row.row = n).details]]

ReportInputs ==
  {ReportArgs(scenarios, customerName) :
     scenarios \in SeqsUpTo(ScenarioSamples, MaxScenarios),
     customerName \in {<<>>, <<"ACME">>}}

\* new Date().toISOString().slice(0, 16).replace("T", " ") at two readings of
\* the clock, the earlier first
ClockReadings == <<"2026-02-21 09:00", "2026-02-21 09:01">>

ClockLabels == {ClockReadings[i] : i \in 1..Len(ClockReadings)}

ReadingOf(label) == CHOOSE i \in 1..Len(ClockReadings) : ClockReadings[i] = label

\* the labels the clock can give once the calls in earlier have read it
ClockLabelsAfter(earlier) ==
  {label \in ClockLabels :
     \A k \in 1..Len(earlier) : ReadingOf(label) >= ReadingOf(earlier[k].generatedAtLabel)}

ReportInit ==
  /\ reportPdf \in {[ReportPdfIdle EXCEPT !.pc = "call", !.args = a] : a \in ReportInputs}
  /\ wrapCall = WrapIdle
  /\ pagination = PaginationIdle
  /\ simplePdf = SimplePdfIdle
  /\ OtherCallsIdle

\* lines 1221-1228: build, prepare and paginate the rows
ReportLayout ==
  /\ reportPdf.pc = "call"
  /\ IF PrepareThrows(reportPdf.args)
     THEN reportPdf' =
            [reportPdf EXCEPT
               !.pc = "threw",
               !.error = "TypeError: Cannot read properties of undefined (reading 'replace')"]
     ELSE LET rows == prepareEngagementReportRows(buildEngagementReportRows(reportPdf.args))
          IN  reportPdf' =
                [reportPdf EXCEPT
                   !.pc = "render",
                   !.rows = rows,
                   !.pages = paginateEngagementReportRows(rows)]
  /\ UNCHANGED <<wrapCall, pagination, simplePdf, otherCalls>>

\* ReportRender reading the clock again for every page
ReportRenderClockPerPage ==
  /\ reportPdf.pc = "render"
  /\ \E labels \in [1..Len(reportPdf.pages) -> ClockLabelsAfter(returned)] :
       reportPdf' =
         [reportPdf EXCEPT
            !.pc = "ids",
            !.generatedAtLabel = labels[1],
            !.streams =
               [i \in 1..Len(reportPdf.pages) |->
                  buildEngagementReportPageStream(reportPdf.args, reportPdf.pages[i],
                                                  labels[i], i - 1, Len(reportPdf.pages))]]
  /\ UNCHANGED <<wrapCall, pagination, simplePdf, otherCalls>>

\* lines 1230-1244: read the clock, render one stream per page
ReportRender ==
  /\ reportPdf.pc = "render"
  /\ \E label \in ClockLabelsAfter(returned) :
       reportPdf' =
         [reportPdf EXCEPT
            !.pc = "ids",
            !.generatedAtLabel = label,
            !.streams =
               [i \in 1..Len(reportPdf.pages) |->
                  buildEngagementReportPageStream(reportPdf.args, reportPdf.pages[i],
                                                  label, i - 1, Len(reportPdf.pages))]]
  /\ UNCHANGED <<wrapCall, pagination, simplePdf, otherCalls>>

\* lines 1139-1153: number the objects
TwoFontIds ==
  /\ reportPdf.pc = "ids"
  /\ LET pageCount == Len(reportPdf.streams)
         regularFontObjectId == NextObjectIdAfterPages(pageCount)
     IN  reportPdf' =
           [reportPdf EXCEPT
              !.pc = "bodies",
              !.pageObjectIds = PageObjectIds(pageCount),
              !.contentObjectIds = ContentObjectIds(pageCount),
              !.regularFontObjectId = regularFontObjectId,
              !.boldFontObjectId = regularFontObjectId + 1,
              !.objectCount = regularFontObjectId + 1]
  /\ UNCHANGED <<wrapCall, pagination, simplePdf, otherCalls>>

\* lines 1155-1188: fill objectBodies, start the file
TwoFontBodies ==
  /\ reportPdf.pc = "bodies"
  /\ LET b == reportPdf
         pageBody(i) ==
           TwoFontPageBody(b.regularFontObjectId, b.boldFontObjectId, b.contentObjectIds[i])
     IN  reportPdf' =
           [b EXCEPT
              !.pc = "objects",
              !.objectBodies =
                 (b.boldFontObjectId :> HelveticaBoldBody)
                   @@ (b.regularFontObjectId :> HelveticaBody)
                   @@ PageBodies(b.pageObjectIds, b.contentObjectIds,
                                 [i \in 1..Len(b.streams) |-> pageBody(i)], b.streams)
                   @@ (2 :> PagesBody(b.pageObjectIds, Len(b.streams)))
                   @@ (1 :> CatalogBody),
              !.pdf = PdfHeader,
              !.offsets = <<0>>,
              !.id = 1]
  /\ UNCHANGED <<wrapCall, pagination, simplePdf, otherCalls>>

\* lines 1190-1197: one iteration of the loop that writes the objects
TwoFontWriteObject ==
  /\ reportPdf.pc = "objects"
  /\ reportPdf.id <= reportPdf.objectCount
  /\ reportPdf' =
       IF BodyMissing(reportPdf.objectBodies, reportPdf.id)
       THEN [reportPdf EXCEPT !.pc = "threw", !.error = MissingBodyMessage(reportPdf.id)]
       ELSE [reportPdf EXCEPT
               !.offsets = Append(@, OffsetOfNextObject(reportPdf.pdf)),
               !.pdf = @ \o ObjectText(reportPdf.id, BodyOf(reportPdf.objectBodies, reportPdf.id)),
               !.id = @ + 1]
  /\ UNCHANGED <<wrapCall, pagination, simplePdf, otherCalls>>

\* lines 1199-1201: the head of the xref section and the free entry
TwoFontWriteXrefHead ==
  /\ reportPdf.pc = "objects"
  /\ reportPdf.id > reportPdf.objectCount
  /\ reportPdf' =
       [reportPdf EXCEPT
          !.pc = "xref",
          !.xrefOffset = OffsetOfXref(reportPdf.pdf),
          !.pdf = @ \o XrefHead(reportPdf.objectCount),
          !.id = 1]
  /\ UNCHANGED <<wrapCall, pagination, simplePdf, otherCalls>>

\* lines 1202-1204: one iteration of the loop that writes the xref entries
TwoFontWriteXrefEntry ==
  /\ reportPdf.pc = "xref"
  /\ reportPdf.id <= reportPdf.objectCount
  /\ reportPdf' =
       [reportPdf EXCEPT
          !.pdf = @ \o XrefEntry(reportPdf.offsets[reportPdf.id + 1]),
          !.id = @ + 1]
  /\ UNCHANGED <<wrapCall, pagination, simplePdf, otherCalls>>

\* lines 1206-1209: the trailer; the call returns the bytes of pdf
TwoFontWriteTrailer ==
  /\ reportPdf.pc = "xref"
  /\ reportPdf.id > reportPdf.objectCount
  /\ reportPdf' =
       [reportPdf EXCEPT
          !.pc = "done",
          !.pdf = @ \o TrailerText(reportPdf.objectCount, reportPdf.xrefOffset)]
  /\ UNCHANGED <<wrapCall, pagination, simplePdf, otherCalls>>

ReportNext ==
  \/ ReportLayout
  \/ ReportRender
  \/ TwoFontIds
  \/ TwoFontBodies
  \/ TwoFontWriteObject
  \/ TwoFontWriteXrefHead
  \/ TwoFontWriteXrefEntry
  \/ TwoFontWriteTrailer

SpecReportPdf == ReportInit /\ [][ReportNext]_vars

\* both builders
PdfInit == SimpleInit \/ ReportInit

PdfNext == SimpleNext \/ ReportNext

SpecPdf == PdfInit /\ [][PdfNext]_vars

(***************************************************************************)
(* Reading a produced file back, from byte 0, as a PDF reader does.        *)
(* Offsets count bytes from 0.                                             *)
(***************************************************************************)
StartsAt(file, offset, text) ==
  /\ offset >= 0
  /\ offset + Len(text) <= Len(file)
  /\ SubSeq(file, offset + 1, offset + Len(text)) = text

Occurrences(file, text) ==
  {k \in 0..(Len(file) - Len(text)) : SubSeq(file, k + 1, k + Len(text)) = text}

IsDigit(c) == c \in {"0", "1", "2", "3", "4", "5", "6", "7", "8", "9"}

AllDigits(text) == \A k \in 0..(Len(text) - 1) : IsDigit(CharAt(text, k))

RECURSIVE DigitsValue(_)
DigitsValue(digits) ==
  IF digits = "" THEN 0
  ELSE 10 * DigitsValue(SubSeq(digits, 1, Len(digits) - 1))
         + IndexIn("0123456789", CharAt(digits, Len(digits) - 1))

\* the run of digits that starts at offset
DigitsAt(file, offset) ==
  LET stops == {k \in offset..Len(file) : k = Len(file) \/ ~IsDigit(CharAt(file, k))}
  IN  SubSeq(file, offset + 1, SetMin(stops))

NumberAt(file, offset) == DigitsValue(DigitsAt(file, offset))

\* the number written right after the only occurrence of key, -1 without one
NumberAfter(text, key) ==
  IF Cardinality(Occurrences(text, key)) # 1 \/ DigitsAt(text, SetMin(Occurrences(text, key)) + Len(key)) = ""
  THEN -1
  ELSE NumberAt(text, SetMin(Occurrences(text, key)) + Len(key))

ObjectHeader(id) == NumToString(id) \o " 0 obj\n"

\* where the objects numbered id begin: a line "{id} 0 obj"
ObjectStarts(file, id) == {k + 1 : k \in Occurrences(file, "\n" \o ObjectHeader(id))}

\* the number of "{n} 0 obj" lines of the file
ObjectCountOf(file) == Cardinality(Occurrences(file, " 0 obj\n"))

\* the text of object id, from after its header line to before "\nendobj\n"
ObjectBodyOf(file, id) ==
  LET begin == SetMin(ObjectStarts(file, id)) + Len(ObjectHeader(id))
      ends == {k \in Occurrences(file, "\nendobj\n") : k >= begin}
  IN  SubSeq(file, begin + 1, SetMin(ends))

ObjectKind(file, id) ==
  IF Cardinality(ObjectStarts(file, id)) # 1 THEN "none"
  ELSE LET body == ObjectBodyOf(file, id)
       IN  IF StartsAt(body, 0, "<< /Type /Catalog ") THEN "catalog"
           ELSE IF StartsAt(body, 0, "<< /Type /Pages ") THEN "pages"
           ELSE IF StartsAt(body, 0, "<< /Type /Page ") THEN "page"
           ELSE IF StartsAt(body, 0, "<< /Type /Font ") THEN "font"
           ELSE IF StartsAt(body, 0, "<< /Length ") THEN "content"
           ELSE "other"

\* the bytes between "stream\n" and the first "\nendstream" of a content object
StreamDataOf(file, id) ==
  LET body == ObjectBodyOf(file, id)
      begin == SetMin(Occurrences(body, "stream\n")) + Len("stream\n")
      ends == {k \in Occurrences(body, "\nendstream") : k >= begin}
  IN  SubSeq(body, begin + 1, SetMin(ends))

DeclaredLength(file, id) == NumberAfter(ObjectBodyOf(file, id), "<< /Length ")

StartxrefValue(file) ==
  NumberAt(file, SetMax(Occurrences(file, "startxref\n")) + Len("startxref\n"))

TrailerSize(file) == NumberAfter(file, "trailer\n<< /Size ")

\* the offset of the first xref entry, given the count written in the head
XrefEntriesStart(file) ==
  LET x == StartxrefValue(file)
  IN  x + Len("xref\n0 ") + Len(DigitsAt(file, x + Len("xref\n0 "))) + 1

\* the 20 bytes of xref entry number id (entry 0 is the free entry)
XrefEntryOf(file, id) ==
  SubSeq(file, XrefEntriesStart(file) + 20 * id + 1, XrefEntriesStart(file) + 20 * id + 20)

XrefOffsetOf(file, id) == DigitsValue(SubSeq(XrefEntryOf(file, id), 1, 10))

\* the ids of the references "{id} 0 R" of a list such as "3 0 R 5 0 R"
RefList(text) ==
  LET marks == Occurrences(text, " 0 R")
      markAt(j) == CHOOSE k \in marks : Cardinality({m \in marks : m < k}) = j - 1
      begin(j) == IF j = 1 THEN 0 ELSE markAt(j - 1) + Len(" 0 R") + 1
  IN  [j \in 1..Cardinality(marks) |-> DigitsValue(SubSeq(text, begin(j) + 1, markAt(j)))]

KidsOf(file) ==
  LET body == ObjectBodyOf(file, 2)
      begin == SetMin(Occurrences(body, "/Kids [")) + Len("/Kids [")
      close == SetMin({k \in Occurrences(body, "]") : k >= begin})
  IN  RefList(SubSeq(body, begin + 1, close))

(***************************************************************************)
(* The properties of a produced file.                                      *)
(***************************************************************************)
\* every in-use xref entry 1..Size-1 holds the offset of the line "{id} 0 obj"
XrefOffsetsExact(file) ==
  /\ TrailerSize(file) >= 2
  /\ \A id \in 1..(TrailerSize(file) - 1) :
       /\ AllDigits(SubSeq(XrefEntryOf(file, id), 1, 10))
       /\ StartsAt(file, XrefOffsetOf(file, id), ObjectHeader(id))
       /\ ObjectStarts(file, id) = {XrefOffsetOf(file, id)}

ContentIds(file) == {id \in 1..ObjectCountOf(file) : ObjectKind(file, id) = "content"}

\* every content object declares the length of the bytes of its stream
StreamLengthsExact(file, streams) ==
  /\ Cardinality(ContentIds(file)) = Len(streams)
  /\ \A id \in ContentIds(file) :
       /\ DeclaredLength(file, id) = Len(StreamDataOf(file, id))
       /\ StartsAt(ObjectBodyOf(file, id), 0,
                   "<< /Length " \o NumToString(DeclaredLength(file, id)) \o " >>\nstream\n")
       /\ ObjectBodyOf(file, id) =
            "<< /Length " \o NumToString(DeclaredLength(file, id)) \o " >>\nstream\n"
              \o StreamDataOf(file, id) \o "\nendstream"
       /\ \E i \in 1..Len(streams) : StreamDataOf(file, id) = streams[i]

\* objects 1..2+2P+F: catalog, pages, P interleaved (page, content), F fonts
ObjectNumbering(file, streams, fontCount) ==
  LET pageCount == Len(streams)
      last == 2 + 2 * pageCount + fontCount
  IN  /\ ObjectCountOf(file) = last
      /\ \A id \in 1..last : Cardinality(ObjectStarts(file, id)) = 1
      /\ \A id \in 1..(last - 1) :
           SetMin(ObjectStarts(file, id)) < SetMin(ObjectStarts(file, id + 1))
      /\ ObjectKind(file, 1) = "catalog"
      /\ ObjectKind(file, 2) = "pages"
      /\ \A i \in 0..(pageCount - 1) :
           /\ ObjectKind(file, 3 + 2 * i) = "page"
           /\ ObjectKind(file, 4 + 2 * i) = "content"
           /\ StreamDataOf(file, 4 + 2 * i) = streams[i + 1]
      /\ \A id \in (last - fontCount + 1)..last : ObjectKind(file, id) = "font"

FontKeys(fontCount) == IF fontCount = 1 THEN {"/F1 "} ELSE {"/F1 ", "/F2 "}

\* every reference resolves to an object of the referenced kind
ReferencesResolve(file, streams, fontCount) ==
  LET kids == KidsOf(file)
  IN  /\ Len(kids) = Len(streams)
      /\ \A i, j \in 1..Len(kids) : i # j => kids[i] # kids[j]
      /\ NumberAfter(ObjectBodyOf(file, 2), "/Count ") = Len(streams)
      /\ \A i \in 1..Len(kids) :
           LET page == ObjectBodyOf(file, kids[i])
           IN  /\ ObjectKind(file, kids[i]) = "page"
               /\ ObjectKind(file, NumberAfter(page, "/Parent ")) = "pages"
               /\ ObjectKind(file, NumberAfter(page, "/Contents ")) = "content"
               /\ StreamDataOf(file, NumberAfter(page, "/Contents ")) = streams[i]
               /\ \A key \in FontKeys(fontCount) :
                    ObjectKind(file, NumberAfter(page, key)) = "font"
               /\ \A i2 \in 1..Len(kids) :
                    i2 # i => NumberAfter(ObjectBodyOf(file, kids[i2]), "/Contents ")
                                # NumberAfter(page, "/Contents ")
      /\ ObjectKind(file, NumberAfter(ObjectBodyOf(file, 1), "/Pages ")) = "pages"
      /\ ObjectKind(file, NumberAfter(file, "/Root ")) = "catalog"
      /\ TrailerSize(file) = ObjectCountOf(file) + 1

\* startxref, the head of the xref section and its 20-byte entries
XrefSectionExact(file) ==
  LET count == ObjectCountOf(file)
      x == StartxrefValue(file)
      head == "xref\n0 " \o NumToString(count + 1) \o "\n"
  IN  /\ Cardinality(Occurrences(file, "\nxref\n")) = 1
      /\ x = SetMin(Occurrences(file, "\nxref\n")) + 1
      /\ StartsAt(file, x, head)
      /\ XrefEntriesStart(file) = x + Len(head)
      /\ XrefEntryOf(file, 0) = "0000000000 65535 f \n"
      /\ \A id \in 1..count :
           /\ Len(XrefEntryOf(file, id)) = 20
           /\ AllDigits(SubSeq(XrefEntryOf(file, id), 1, 10))
           /\ SubSeq(XrefEntryOf(file, id), 11, 20) = " 00000 n \n"
           /\ id > 1 => XrefOffsetOf(file, id - 1) < XrefOffsetOf(file, id)
      /\ StartsAt(file, XrefEntriesStart(file) + 20 * (count + 1), "trailer\n")
      /\ StartsAt(file, SetMax(Occurrences(file, "startxref\n")),
                  "startxref\n" \o NumToString(x) \o "\n%%EOF\n")
      /\ Len(file) = SetMax(Occurrences(file, "startxref\n"))
                       + Len("startxref\n" \o NumToString(x) \o "\n%%EOF\n")

(***************************************************************************)
(* The claims about the files of the two builders.                         *)
(***************************************************************************)
SimpleDone == simplePdf.pc = "done"

ReportDone == reportPdf.pc = "done"

\* C1: in every file of buildSimplePdf and of buildEngagementReportPdf, for
\* every id in 1..Size-1 the offset of the id-th in-use xref entry is the
\* byte position, counted from byte 0, where the line "{id} 0 obj" begins.
C1_XrefOffsetsMatchObjects ==
  /\ SimpleDone => XrefOffsetsExact(simplePdf.pdf)
  /\ ReportDone => XrefOffsetsExact(reportPdf.pdf)

\* a report of two pages, whose last object begins after long streams
C1_Witness ==
  /\ ReportDone
  /\ Len(reportPdf.streams) = 2
  /\ XrefOffsetOf(reportPdf.pdf, 8) > Len(reportPdf.streams[1]) + Len(reportPdf.streams[2])
  /\ StartsAt(reportPdf.pdf, XrefOffsetOf(reportPdf.pdf, 8), "8 0 obj\n")

\* C2: in every file of either builder each content object declares as
\* /Length the number of bytes between "stream\n" and "\nendstream", which
\* are the bytes of the stream of its page, also for an empty list of lines
\* or of rows.
C2_StreamLengthsMatch ==
  /\ SimpleDone => StreamLengthsExact(simplePdf.pdf, simplePdf.streams)
  /\ ReportDone => StreamLengthsExact(reportPdf.pdf, reportPdf.streams)

\* a plain report without any line and with characters that get escaped
C2_Witness ==
  /\ SimpleDone
  /\ simplePdf.lines = <<>>
  /\ Occurrences(simplePdf.title, "(") # {}
  /\ DeclaredLength(simplePdf.pdf, 4) > Len(simplePdf.title)

\* C3: with P pages and F fonts the objects are numbered 1..2+2P+F without
\* gap or reuse (so that the writer never misses a body): 1 the catalog,
\* 2 the pages tree, 3+2i page i, 4+2i its content stream, the last F fonts.
C3_ObjectNumbersContiguous ==
  /\ simplePdf.pc # "threw"
  /\ reportPdf.pc # "threw"
  /\ simplePdf.pc \in {"objects", "xref", "done"} =>
       DOMAIN simplePdf.objectBodies = 1..(2 + 2 * Len(simplePdf.pages) + 1)
  /\ reportPdf.pc \in {"objects", "xref", "done"} =>
       DOMAIN reportPdf.objectBodies = 1..(2 + 2 * Len(reportPdf.pages) + 2)
  /\ SimpleDone => ObjectNumbering(simplePdf.pdf, simplePdf.streams, 1)
  /\ ReportDone => ObjectNumbering(reportPdf.pdf, reportPdf.streams, 2)

\* a plain report of three pages: nine objects
C3_Witness ==
  /\ SimpleDone
  /\ Len(simplePdf.pages) = 3
  /\ ObjectCountOf(simplePdf.pdf) = 9
  /\ ObjectKind(simplePdf.pdf, 7) = "page"

\* C4: in every file each id referenced from /Kids, /Contents, /Parent,
\* /Resources /Font, /Pages and /Root is the id of a written object of the
\* referenced kind, /Contents of the i-th kid is the stream of page i, /Kids
\* lists P distinct pages, /Count is P and /Size is the object count plus 1.
C4_ReferencesResolve ==
  /\ SimpleDone => ReferencesResolve(simplePdf.pdf, simplePdf.streams, 1)
  /\ ReportDone => ReferencesResolve(reportPdf.pdf, reportPdf.streams, 2)

\* a report of two pages whose kids are the objects 3 and 5
C4_Witness ==
  /\ ReportDone
  /\ KidsOf(reportPdf.pdf) = <<3, 5>>
  /\ NumberAfter(ObjectBodyOf(reportPdf.pdf, 5), "/F2 ") = 8

\* C5: in every file the value after startxref is the offset of the keyword
\* xref, the section is headed "0 {count+1}" and holds count+1 entries of 20
\* bytes: the free entry, then "{10-digit offset} 00000 n" per object in
\* ascending id order with strictly increasing offsets.
C5_XrefSectionWellFormed ==
  /\ SimpleDone => XrefSectionExact(simplePdf.pdf)
  /\ ReportDone => XrefSectionExact(reportPdf.pdf)

\* a plain report of two pages: seven in-use entries after the free one
C5_Witness ==
  /\ SimpleDone
  /\ Len(simplePdf.pages) = 2
  /\ StartsAt(simplePdf.pdf, StartxrefValue(simplePdf.pdf), "xref\n0 8\n")
  /\ XrefOffsetOf(simplePdf.pdf, 7) > XrefOffsetOf(simplePdf.pdf, 6)

\* C8 as stated: with result.rows empty the report has exactly one page and
\* the body of its table is the placeholder row "No selected scenario rows
\* to export.".
C8_NoRowsPlaceholder ==
  (ReportDone /\ reportPdf.args.result.rows = <<>>) =>
    /\ Len(reportPdf.streams) = 1
    /\ Occurrences(reportPdf.streams[1], "(" \o escapePdfText(NoRowsText) \o ") Tj") # {}

(***************************************************************************)
(* Calls of toPdfSafeAscii and escapePdfText on their own.                 *)
(***************************************************************************)
PdfCallsIdle ==
  /\ wrapCall = WrapIdle
  /\ pagination = PaginationIdle
  /\ simplePdf = SimplePdfIdle
  /\ reportPdf = ReportPdfIdle

\* printable characters at both ends of 0x20..0x7E, the characters the
\* regular expressions look for and a character outside ASCII
SanitizeAlphabet == {"a", "~", " ", "\t", "\n", "\r", "é"}

\* the characters escapePdfText escapes and some it must leave alone
EscapeAlphabet == {"a", "(", ")", "\\", "\n", "é"}

SanitizeInputs ==
  [fn : {"toPdfSafeAscii"}, input : StringsUpTo(SanitizeAlphabet, MaxSanitizeLen)]
    \cup [fn : {"escapePdfText"},
          input : StringsUpTo(EscapeAlphabet, MaxSanitizeLen) \cup {"Côté (Ops)"}]

SanitizeInit ==
  /\ sanitizeCall \in
       {[pc |-> "call", fn |-> i.fn, input |-> i.input, result |-> "", again |-> ""] :
          i \in SanitizeInputs}
  /\ PdfCallsIdle
  /\ lineWrap = [pc |-> "idle"]
  /\ returned = <<>>
  /\ calls = <<>>
  /\ optimizer = [pc |-> "idle"]
  /\ spreadCall = [pc |-> "idle"]
  /\ db = [users |-> {}, sessions |-> {}, engagements |-> {}]
  /\ requests = <<>>

\* a call of toPdfSafeAscii(input)
SanitizeApply ==
  /\ sanitizeCall.pc = "call"
  /\ sanitizeCall.fn = "toPdfSafeAscii"
  /\ sanitizeCall' = [sanitizeCall EXCEPT !.pc = "done",
                                          !.result = toPdfSafeAscii(sanitizeCall.input)]
  /\ UNCHANGED <<wrapCall, pagination, simplePdf, reportPdf,
                 lineWrap, returned, calls, optimizer, spreadCall,
                 db, requests>>

\* a call of toPdfSafeAscii on what the first call returned
SanitizeReapply ==
  /\ sanitizeCall.pc = "done"
  /\ sanitizeCall.fn = "toPdfSafeAscii"
  /\ sanitizeCall' = [sanitizeCall EXCEPT !.pc = "twice",
                                          !.again = toPdfSafeAscii(sanitizeCall.result)]
  /\ UNCHANGED <<wrapCall, pagination, simplePdf, reportPdf,
                 lineWrap, returned, calls, optimizer, spreadCall,
                 db, requests>>

\* a call of escapePdfText(input)
EscapeApply ==
  /\ sanitizeCall.pc = "call"
  /\ sanitizeCall.fn = "escapePdfText"
  /\ sanitizeCall' = [sanitizeCall EXCEPT !.pc = "done",
                                          !.result = escapePdfText(sanitizeCall.input)]
  /\ UNCHANGED <<wrapCall, pagination, simplePdf, reportPdf,
                 lineWrap, returned, calls, optimizer, spreadCall,
                 db, requests>>

SanitizeNext == SanitizeApply \/ SanitizeReapply \/ EscapeApply

SpecSanitize == SanitizeInit /\ [][SanitizeNext]_vars

IsPrintableAscii(c) == IndexIn(AsciiFrom32, c) >= 0 \/ IndexIn(AsciiFrom97, c) >= 0

AllPrintableAscii(s) == \A k \in 0..(Len(s) - 1) : IsPrintableAscii(CharAt(s, k))

\* the text the claim describes, read off the input in one pass from the left
RECURSIVE SafeTextOf(_)
SafeTextOf(s) ==
  IF s = "" THEN ""
  ELSE IF Len(s) >= 2 /\ SubSeq(s, 1, 2) = "\r\n" THEN " " \o SafeTextOf(SubSeq(s, 3, Len(s)))
  ELSE IF Head(s) = "\n" THEN " " \o SafeTextOf(Tail(s))
  ELSE IF Head(s) = "\t" THEN "  " \o SafeTextOf(Tail(s))
  ELSE IF IsPrintableAscii(SubSeq(s, 1, 1)) THEN SubSeq(s, 1, 1) \o SafeTextOf(Tail(s))
  ELSE "?" \o SafeTextOf(Tail(s))

\* C11: toPdfSafeAscii returns for every input a text of characters of codes
\* 0x20..0x7E only, in which each \r\n or \n became one space, each tab two
\* spaces, each other character outside 0x20..0x7E one "?" and the printable
\* characters are kept in order; "" gives "", and a second application
\* returns what the first returned.
C11_SafeAsciiTotal ==
  sanitizeCall.fn = "toPdfSafeAscii" =>
    /\ sanitizeCall.pc \in {"done", "twice"} =>
         /\ AllPrintableAscii(sanitizeCall.result)
         /\ sanitizeCall.result = SafeTextOf(sanitizeCall.input)
         /\ sanitizeCall.input = "" => sanitizeCall.result = ""
    /\ sanitizeCall.pc = "twice" => sanitizeCall.again = sanitizeCall.result

\* a text with a tab, a \r\n and a character outside ASCII, sanitized twice
C11_Witness ==
  /\ sanitizeCall.pc = "twice"
  /\ sanitizeCall.fn = "toPdfSafeAscii"
  /\ sanitizeCall.input = "\t\r\né"
  /\ sanitizeCall.again = "   ?"

\* the characters with a meaning of their own inside a PDF literal string
IsLiteralSyntax(c) == c \in {"\\", "(", ")"}

\* s reads, from the left, as plain characters and escape sequences only
RECURSIVE IsEscapedLiteral(_)
IsEscapedLiteral(s) ==
  IF s = "" THEN TRUE
  ELSE IF SubSeq(s, 1, 1) = "\\"
       THEN /\ Len(s) >= 2
            /\ IsLiteralSyntax(SubSeq(s, 2, 2))
            /\ IsEscapedLiteral(SubSeq(s, 3, Len(s)))
       ELSE /\ ~IsLiteralSyntax(SubSeq(s, 1, 1))
            /\ IsEscapedLiteral(Tail(s))

\* the text a PDF reader gets: each escape sequence without its backslash
RECURSIVE LiteralTextOf(_)
LiteralTextOf(s) ==
  IF s = "" THEN ""
  ELSE IF SubSeq(s, 1, 1) = "\\" /\ Len(s) >= 2
       THEN SubSeq(s, 2, 2) \o LiteralTextOf(SubSeq(s, 3, Len(s)))
       ELSE SubSeq(s, 1, 1) \o LiteralTextOf(Tail(s))

SyntaxCount(s) == Cardinality({k \in 0..(Len(s) - 1) : IsLiteralSyntax(CharAt(s, k))})

\* C12: escapePdfText(text) is toPdfSafeAscii(text) with exactly one backslash
\* put before each backslash and parenthesis: no parenthesis stays unescaped,
\* no backslash put before a parenthesis is doubled, and taking one backslash
\* off every escape sequence gives toPdfSafeAscii(text) back.
C12_EscapeRoundTrip ==
  (sanitizeCall.fn = "escapePdfText" /\ sanitizeCall.pc = "done") =>
    /\ IsEscapedLiteral(sanitizeCall.result)
    /\ LiteralTextOf(sanitizeCall.result) = toPdfSafeAscii(sanitizeCall.input)
    /\ Len(sanitizeCall.result) =
         Len(toPdfSafeAscii(sanitizeCall.input)) + SyntaxCount(toPdfSafeAscii(sanitizeCall.input))

\* the name with parentheses and characters outside ASCII
C12_Witness ==
  /\ sanitizeCall.pc = "done"
  /\ sanitizeCall.fn = "escapePdfText"
  /\ sanitizeCall.input = "Côté (Ops)"
  /\ sanitizeCall.result = "C?t? \\(Ops\\)"

(***************************************************************************)
(* Serialization of an object map with a defect.  The builders as written  *)
(* give every id a body, so the check of the body in the write loop is     *)
(* exercised here by a defect that loses one body before the loop starts.  *)
(***************************************************************************)
WithoutBody(objectBodies, id) ==
  [k \in (DOMAIN objectBodies) \ {id} |-> objectBodies[k]]

MissingIds(builder) ==
  {k \in 1..builder.objectCount : k \notin DOMAIN builder.objectBodies}

\* the object map of buildSimplePdf reaches the write loop without the body of one id
SimpleLoseBody ==
  /\ simplePdf.pc = "objects"
  /\ simplePdf.id = 1
  /\ MissingIds(simplePdf) = {}
  /\ \E id \in 1..simplePdf.objectCount :
       simplePdf' = [simplePdf EXCEPT !.objectBodies = WithoutBody(@, id)]
  /\ UNCHANGED <<wrapCall, pagination, reportPdf, otherCalls>>

\* the same for the object map of buildPdfWithTwoFonts
TwoFontLoseBody ==
  /\ reportPdf.pc = "objects"
  /\ reportPdf.id = 1
  /\ MissingIds(reportPdf) = {}
  /\ \E id \in 1..reportPdf.objectCount :
       reportPdf' = [reportPdf EXCEPT !.objectBodies = WithoutBody(@, id)]
  /\ UNCHANGED <<wrapCall, pagination, simplePdf, otherCalls>>

PdfDefectNext == PdfNext \/ SimpleLoseBody \/ TwoFontLoseBody

SpecPdfDefect == PdfInit /\ [][PdfDefectNext]_vars

\* the write loop of a builder never gets past an id without body: it throws
\* the error naming the first such id and the call returns no file
FailsFastOnMissingBody(builder) ==
  /\ (MissingIds(builder) # {} /\ builder.pc = "objects") =>
       builder.id <= SetMin(MissingIds(builder))
  /\ MissingIds(builder) # {} => builder.pc \notin {"xref", "done"}
  /\ builder.pc = "threw" =>
       /\ MissingIds(builder) # {}
       /\ builder.id = SetMin(MissingIds(builder))
       /\ builder.error = MissingBodyMessage(SetMin(MissingIds(builder)))
       /\ Occurrences(builder.pdf, "%%EOF") = {}

\* C13: when an id in 1..objectCount has no body in the object map, the write
\* loop throws an error naming that id and the builder returns no buffer, be
\* it truncated or partial.
C13_MissingBodyThrows ==
  /\ FailsFastOnMissingBody(simplePdf)
  /\ FailsFastOnMissingBody(reportPdf)

\* the write loop of the report met the lost body of a content stream
C13_Witness ==
  /\ reportPdf.pc = "threw"
  /\ MissingIds(reportPdf) = {4}
  /\ reportPdf.error = "Missing PDF object body for id 4."
  /\ Len(reportPdf.offsets) = 4

(***************************************************************************)
(* Two calls of buildEngagementReportPdf with the same arguments, one      *)
(* after the other.                                                        *)
(***************************************************************************)
\* the first call has returned its bytes; the caller calls again with the
\* arguments of the first call
ReportCallAgain ==
  /\ reportPdf.pc = "done"
  /\ returned = <<>>
  /\ returned' = <<[args |-> reportPdf.args,
                    generatedAtLabel |-> reportPdf.generatedAtLabel,
                    pdf |-> reportPdf.pdf]>>
  /\ reportPdf' = [ReportPdfIdle EXCEPT !.pc = "call", !.args = reportPdf.args]
  /\ UNCHANGED <<wrapCall, pagination, simplePdf,
                 sanitizeCall, lineWrap, calls, optimizer, spreadCall,
                 db, requests>>

ReportTwiceNext == ReportNext \/ ReportCallAgain

SpecReportTwice == ReportInit /\ [][ReportTwiceNext]_vars

BothCallsReturned == reportPdf.pc = "done" /\ returned # <<>>

\* the byte positions, counted from 0, at which two files of one length differ
DifferingBytes(a, b) == {k \in 0..(Len(a) - 1) : CharAt(a, k) # CharAt(b, k)}

\* the byte positions of the labels printed after "(Generated " in a file
GeneratedLabelBytes(file) ==
  UNION {(o + Len("(Generated "))..(o + Len("(Generated ") + 15) :
           o \in Occurrences(file, "(Generated ")}

WithoutField(record, key) == [k \in (DOMAIN record) \ {key} |-> record[k]]

CompleteReportArgs ==
  ReportArgs(<<CHOOSE sample \in ScenarioSamples : sample.row.row = 7>>, <<"ACME">>)

SparseReportInputs ==
  {CompleteReportArgs,
   [CompleteReportArgs EXCEPT !.customerName = <<>>, !.opportunity = <<>>],
   [CompleteReportArgs EXCEPT !.spread = WithoutField(@, "y1")],
   [CompleteReportArgs EXCEPT !.result.totals = WithoutField(@, "y3")],
   [CompleteReportArgs EXCEPT !.result.rows[1] = WithoutField(@, "name")]}

SparseReportInit ==
  /\ reportPdf \in {[ReportPdfIdle EXCEPT !.pc = "call", !.args = a] : a \in SparseReportInputs}
  /\ wrapCall = WrapIdle
  /\ pagination = PaginationIdle
  /\ simplePdf = SimplePdfIdle
  /\ OtherCallsIdle

SpecSparseReport == SparseReportInit /\ [][ReportNext]_vars

\* C16 as stated: sparse input never makes buildEngagementReportPdf throw; a
\* missing number is printed as 0, a missing text as the empty string or a
\* placeholder, and a complete file is returned.
C16_SparseInputSafeDefaults ==
  /\ reportPdf.pc # "threw"
  /\ ReportDone =>
       /\ XrefSectionExact(reportPdf.pdf)
       /\ "y1" \notin DOMAIN reportPdf.args.spread =>
            Occurrences(reportPdf.streams[1], "(Spread %: Y1 0  Y2 ") # {}
       /\ "y3" \notin DOMAIN reportPdf.args.result.totals =>
            Occurrences(reportPdf.streams[1], "  Y3 0  Y4 ") # {}
       /\ reportPdf.args.customerName = <<>> =>
            Occurrences(reportPdf.streams[1], "(Customer: -) Tj") # {}

(***************************************************************************)
(* Concurrent calls of the two builders.  A frame holds the local values   *)
(* of a call; the arrays and the Map a call works on are objects of the    *)
(* heap, in the region where the call allocated them.  Region 0 is the     *)
(* scope of the module, the other regions belong to one call each.  The    *)
(* steps of different calls interleave in any order.                       *)
(***************************************************************************)
EmptyRegion ==
  [commands |-> <<>>, objectBodies |-> <<>>, offsets |-> <<>>, accessedBy |-> {}]

\* AllocatedRegion of buffers declared once, in the scope of the module
AllocatedAtModuleScope(call) == 0

\* const commands: string[] = [...], new Map<number, string>() and
\* const offsets: number[] = [0] are evaluated by the call: fresh objects
AllocatedRegion(call) == call

\* the objects of the heap as the call finds them, and after it wrote one
RegionOf(call) == calls.heap[AllocatedRegion(call)]

HeapAfterWrite(call, field, value) ==
  [calls.heap EXCEPT ![AllocatedRegion(call)] =
     [@ EXCEPT ![field] = value, !.accessedBy = @ \cup {call}]]

HeapAfterRead(call) ==
  [calls.heap EXCEPT ![AllocatedRegion(call)] = [@ EXCEPT !.accessedBy = @ \cup {call}]]

\* objectBodies of buildSimplePdf after lines 350-380
SimpleObjectBodies(title, pages) ==
  LET pageCount == Len(pages)
      fontObjectId == NextObjectIdAfterPages(pageCount)
  IN  (fontObjectId :> HelveticaBody)
        @@ PageBodies(PageObjectIds(pageCount), ContentObjectIds(pageCount),
                      [i \in 1..pageCount |->
                         SimplePageBody(fontObjectId, ContentObjectIds(pageCount)[i])],
                      SimpleStreams(title, pages))
        @@ (2 :> PagesBody(PageObjectIds(pageCount), pageCount))
        @@ (1 :> CatalogBody)

\* objectBodies of buildPdfWithTwoFonts after lines 1155-1185
TwoFontObjectBodies(pageStreams) ==
  LET pageCount == Len(pageStreams)
      regularFontObjectId == NextObjectIdAfterPages(pageCount)
  IN  (regularFontObjectId + 1 :> HelveticaBoldBody)
        @@ (regularFontObjectId :> HelveticaBody)
        @@ PageBodies(PageObjectIds(pageCount), ContentObjectIds(pageCount),
                      [i \in 1..pageCount |->
                         TwoFontPageBody(regularFontObjectId, regularFontObjectId + 1,
                                         ContentObjectIds(pageCount)[i])],
                      pageStreams)
        @@ (2 :> PagesBody(PageObjectIds(pageCount), pageCount))
        @@ (1 :> CatalogBody)

\* the file of a call that runs alone: the objects one after the other, each
\* offset the length of what precedes the object
SerializedAlone(objectBodies, objectCount) ==
  LET objects == SubSeq([id \in 1..objectCount |-> ObjectText(id, objectBodies[id])],
                        1, objectCount)
      offsetOf(id) == Len(PdfHeader) + Len(ConcatRange(objects, 1, id - 1))
      body == PdfHeader \o Concat(objects)
  IN  body \o XrefHead(objectCount)
           \o Concat([id \in 1..objectCount |-> XrefEntry(offsetOf(id))])
           \o TrailerText(objectCount, Len(body))

FileOfCallAlone(f, generatedAtLabel) ==
  IF f.kind = "simple"
  THEN SerializedAlone(SimpleObjectBodies(f.title, SimplePages(wrapPdfLines(f.lines))),
                       NextObjectIdAfterPages(Len(SimplePages(wrapPdfLines(f.lines)))))
  ELSE LET pages == paginateEngagementReportRows(
                      prepareEngagementReportRows(buildEngagementReportRows(f.args)))
           streams == SubSeq([i \in 1..Len(pages) |->
                                buildEngagementReportPageStream(f.args, pages[i],
                                                                generatedAtLabel,
                                                                i - 1, Len(pages))],
                             1, Len(pages))
       IN  SerializedAlone(TwoFontObjectBodies(streams),
                           NextObjectIdAfterPages(Len(pages)) + 1)

ConcurrentInputs ==
  {[kind |-> "simple", title |-> "Quick Test", lines |-> <<"Line 1", "Line 2">>, args |-> <<>>],
   [kind |-> "report", title |-> "", lines |-> <<>>, args |-> CompleteReportArgs]}

FrameAtCall(input) ==
  [pc |-> "call", kind |-> input.kind, title |-> input.title, lines |-> input.lines,
   args |-> input.args, generatedAtLabel |-> "", pages |-> <<>>, page |-> 0,
   streams |-> <<>>, objectCount |-> 0, pdf |-> "", id |-> 0, xrefOffset |-> 0,
   alone |-> [label \in IF input.kind = "simple" THEN {""} ELSE ClockLabels |->
               FileOfCallAlone(input, label)]]

ConcurrentInit ==
  /\ calls \in {[frame |-> [p \in 1..MaxCalls |-> FrameAtCall(inputs[p])],
                 heap |-> [r \in 0..MaxCalls |-> EmptyRegion]] :
                  inputs \in [1..MaxCalls -> ConcurrentInputs]}
  /\ PdfCallsIdle
  /\ sanitizeCall = [pc |-> "idle"]
  /\ lineWrap = [pc |-> "idle"]
  /\ returned = <<>>
  /\ optimizer = [pc |-> "idle"]
  /\ spreadCall = [pc |-> "idle"]
  /\ db = [users |-> {}, sessions |-> {}, engagements |-> {}]
  /\ requests = <<>>

ConcurrentUnchanged ==
  UNCHANGED <<wrapCall, pagination, simplePdf, reportPdf,
              sanitizeCall, lineWrap, returned, optimizer, spreadCall,
                 db, requests>>

\* buildSimplePdf lines 318-355 (the Map is made and gets the catalog and the
\* pages tree), buildEngagementReportPdf lines 1221-1230
ConcurrentCall(p) ==
  LET f == calls.frame[p]
  IN  /\ f.pc = "call"
      /\ IF f.kind = "simple"
         THEN LET pages == SimplePages(wrapPdfLines(f.lines))
              IN  calls' =
                    [frame |-> [calls.frame EXCEPT ![p] =
                                  [f EXCEPT !.pc = "push", !.pages = pages, !.page = 1,
                                            !.objectCount = NextObjectIdAfterPages(Len(pages))]],
                     heap |-> HeapAfterWrite(p, "objectBodies",
                                (2 :> PagesBody(PageObjectIds(Len(pages)), Len(pages)))
                                  @@ (1 :> CatalogBody))]
         ELSE \E label \in ClockLabels :
                calls' =
                  [calls EXCEPT !.frame[p] =
                     [f EXCEPT !.pc = "push", !.page = 1, !.generatedAtLabel = label,
                               !.pages = paginateEngagementReportRows(
                                           prepareEngagementReportRows(
                                             buildEngagementReportRows(f.args)))]]
      /\ ConcurrentUnchanged

\* the commands of one page are pushed on the array of the call
ConcurrentPushCommands(p) ==
  LET f == calls.frame[p]
      pageCount == Len(f.pages)
      commands ==
        IF f.kind = "simple"
        THEN PdfPageCommands(SimplePageTitle(f.title, f.page - 1, pageCount), f.pages[f.page])
        ELSE EngagementReportPageCommands(f.args, f.pages[f.page], f.generatedAtLabel,
                                          f.page - 1, pageCount)
  IN  /\ f.pc = "push"
      /\ calls' = [frame |-> [calls.frame EXCEPT ![p] = [f EXCEPT !.pc = "join"]],
                   heap |-> HeapAfterWrite(p, "commands", commands)]
      /\ ConcurrentUnchanged

\* commands.join("\n") gives the stream of the page; buildSimplePdf sets the
\* bodies of the page and of its stream at once (lines 362-374)
ConcurrentJoinCommands(p) ==
  LET f == calls.frame[p]
      pageCount == Len(f.pages)
      stream == JoinLines(RegionOf(p).commands)
      next == [f EXCEPT !.pc = IF f.page = pageCount THEN "bodies" ELSE "push",
                        !.page = @ + 1,
                        !.streams = Append(@, stream)]
  IN  /\ f.pc = "join"
      /\ calls' =
           [frame |-> [calls.frame EXCEPT ![p] = next],
            heap |->
              IF f.kind = "simple"
              THEN HeapAfterWrite(p, "objectBodies",
                     (ContentObjectIdAt(f.page - 1) :> ContentBody(stream))
                       @@ (PageObjectIdAt(f.page - 1) :>
                             SimplePageBody(f.objectCount, ContentObjectIdAt(f.page - 1)))
                       @@ RegionOf(p).objectBodies)
              ELSE HeapAfterRead(p)]
      /\ ConcurrentUnchanged

\* buildSimplePdf lines 377-383: the font; buildPdfWithTwoFonts lines
\* 1139-1188: the Map with all its bodies; then the offsets and the header
ConcurrentBodies(p) ==
  LET f == calls.frame[p]
      objectBodies ==
        IF f.kind = "simple"
        THEN (f.objectCount :> HelveticaBody) @@ RegionOf(p).objectBodies
        ELSE TwoFontObjectBodies(f.streams)
      objectCount ==
        IF f.kind = "simple" THEN f.objectCount
        ELSE NextObjectIdAfterPages(Len(f.streams)) + 1
  IN  /\ f.pc = "bodies"
      /\ calls' =
           [frame |-> [calls.frame EXCEPT ![p] =
                         [f EXCEPT !.pc = "objects", !.objectCount = objectCount,
                                   !.pdf = PdfHeader, !.id = 1]],
            heap |-> [HeapAfterWrite(p, "objectBodies", objectBodies)
                        EXCEPT ![AllocatedRegion(p)].offsets = <<0>>]]
      /\ ConcurrentUnchanged

\* the file after the loop that writes the objects whose bodies the Map holds
ObjectsWritten(objectBodies, objectCount) ==
  PdfHeader \o Concat([id \in 1..objectCount |-> ObjectText(id, BodyOf(objectBodies, id))])

\* offsets after that loop: the length of the file before each object
OffsetsWritten(offsets, objectBodies, objectCount) ==
  LET objects == [id \in 1..objectCount |-> ObjectText(id, BodyOf(objectBodies, id))]
  IN  [k \in 1..Max(Len(offsets), objectCount + 1) |->
         IF k >= 2 /\ k <= objectCount + 1
         THEN Len(PdfHeader) + Len(ConcatRange(objects, 1, k - 2))
         ELSE offsets[k]]

\* the loop that writes the objects and fills the offsets
ConcurrentWriteObjects(p) ==
  LET f == calls.frame[p]
  IN  /\ f.pc = "objects"
      /\ IF \E id \in 1..f.objectCount : BodyMissing(RegionOf(p).objectBodies, id)
         THEN calls' = [frame |-> [calls.frame EXCEPT ![p] = [f EXCEPT !.pc = "threw"]],
                        heap |-> HeapAfterRead(p)]
         ELSE calls' =
                [frame |-> [calls.frame EXCEPT ![p] =
                              [f EXCEPT !.pc = "xref",
                                        !.pdf = ObjectsWritten(RegionOf(p).objectBodies,
                                                               f.objectCount)]],
                 heap |-> HeapAfterWrite(p, "offsets",
                            OffsetsWritten(RegionOf(p).offsets, RegionOf(p).objectBodies,
                                           f.objectCount))]
      /\ ConcurrentUnchanged

\* the xref section from the offsets, the trailer; the call returns the bytes
ConcurrentWriteXref(p) ==
  LET f == calls.frame[p]
      offsets == RegionOf(p).offsets
  IN  /\ f.pc = "xref"
      /\ calls' =
           [frame |-> [calls.frame EXCEPT ![p] =
                         [f EXCEPT
                            !.pc = "done",
                            !.xrefOffset = OffsetOfXref(f.pdf),
                            !.pdf = @ \o XrefHead(f.objectCount)
                                      \o Concat([id \in 1..f.objectCount |->
                                                   XrefEntry(offsets[id + 1])])
                                      \o TrailerText(f.objectCount, OffsetOfXref(f.pdf))]],
            heap |-> HeapAfterRead(p)]
      /\ ConcurrentUnchanged

ConcurrentNext ==
  \E p \in 1..MaxCalls :
    \/ ConcurrentCall(p)
    \/ ConcurrentPushCommands(p)
    \/ ConcurrentJoinCommands(p)
    \/ ConcurrentBodies(p)
    \/ ConcurrentWriteObjects(p)
    \/ ConcurrentWriteXref(p)

SpecConcurrent == ConcurrentInit /\ [][ConcurrentNext]_vars

\* C15: under every interleaving of concurrent calls of the builders, the
\* command buffer, the offset table and the object map of a call are read and
\* written by that call only, nothing is written in the scope of the module,
\* and each call returns the file it returns when it runs alone.
C15_CallsShareNoState ==
  /\ calls.heap[0] = EmptyRegion
  /\ \A p \in 1..MaxCalls :
       /\ calls.heap[p].accessedBy \subseteq {p}
       /\ calls.frame[p].pc # "threw"
       /\ calls.frame[p].pc = "done" =>
            calls.frame[p].pdf = calls.frame[p].alone[calls.frame[p].generatedAtLabel]

\* a plain report and a tabular report returned after their steps interleaved
C15_Witness ==
  /\ calls.frame[1].pc = "done"
  /\ calls.frame[2].pc = "done"
  /\ calls.frame[1].kind = "simple"
  /\ calls.frame[2].kind = "report"
  /\ calls.heap[1].accessedBy = {1}
  /\ calls.heap[2].accessedBy = {2}
  /\ Len(calls.heap[2].offsets) = 7

(***************************************************************************)
(* The wrap loops.  A call of wrapPdfCellText, then the body of the for    *)
(* loop of wrapPdfLines for one raw line, one action per iteration of the  *)
(* while loops.                                                            *)
(***************************************************************************)
Repeat(text, n) == Concat([i \in 1..n |-> text])

\* raw lines: empty, short, of the maximal length, without any space, with
\* spaces before and after the middle, of spaces only, with leading spaces,
\* with tabs that the sanitizer doubles
LineWrapTexts ==
  {"", "Line 1", Repeat("a", 150), Repeat("a", 151), Repeat("a", 400),
   LongLine, Repeat("lorem ipsum ", 40), Repeat(" ", 200),
   " " \o Repeat("a", 160),
   Repeat("a", 70) \o " " \o Repeat("b", 100),
   Repeat("a", 80) \o " " \o Repeat("b", 100),
   Repeat("\t", 80) \o "a"}

\* every cell text and width with one short line, and every raw line with one
\* cell text
WrapLoopsInputs ==
  {[input |-> t, maxChars |-> c, rawLine |-> "Line 1"] :
     t \in WrapTexts, c \in 1..MaxWrapChars}
    \cup {[input |-> "ab abcd ab", maxChars |-> 2, rawLine |-> l] : l \in LineWrapTexts}

WrapLoopsInit ==
  /\ \E i \in WrapLoopsInputs :
       /\ wrapCall =
            [pc |-> "call", input |-> i.input, maxChars |-> i.maxChars,
             maxLines |-> MaxWrapLines, emptyPlaceholder |-> "-", rest |-> "",
             wrapped |-> <<>>, result |-> <<>>]
       /\ lineWrap = [pc |-> "call", rawLine |-> i.rawLine, rest |-> "", wrapped |-> <<>>]
  /\ pagination = PaginationIdle
  /\ simplePdf = SimplePdfIdle
  /\ reportPdf = ReportPdfIdle
  /\ sanitizeCall = [pc |-> "idle"]
  /\ returned = <<>>
  /\ calls = <<>>
  /\ optimizer = [pc |-> "idle"]
  /\ spreadCall = [pc |-> "idle"]
  /\ db = [users |-> {}, sessions |-> {}, engagements |-> {}]
  /\ requests = <<>>

LineWrapUnchanged ==
  UNCHANGED <<wrapCall, pagination, simplePdf, reportPdf,
              sanitizeCall, returned, calls, optimizer, spreadCall,
                 db, requests>>

\* lines 263-274: the raw line is sanitized; an empty or short line is pushed
LineWrapBegin ==
  /\ wrapCall.pc \in {"done", "threw"}
  /\ lineWrap.pc = "call"
  /\ LET line == toPdfSafeAscii(lineWrap.rawLine)
     IN  lineWrap' =
           IF line = ""
           THEN [lineWrap EXCEPT !.pc = "done", !.wrapped = <<"">>]
           ELSE IF Len(line) <= PDF_MAX_LINE_LENGTH
           THEN [lineWrap EXCEPT !.pc = "done", !.wrapped = <<line>>]
           ELSE [lineWrap EXCEPT !.pc = "loop", !.rest = line]
  /\ LineWrapUnchanged

\* lines 277-287: one iteration of the while loop
LineWrapIterate ==
  /\ lineWrap.pc = "loop"
  /\ Len(lineWrap.rest) > PDF_MAX_LINE_LENGTH
  /\ lineWrap' =
       [lineWrap EXCEPT
          !.wrapped = Append(@, TrimEnd(Slice(lineWrap.rest, 0, LineCut(lineWrap.rest)))),
          !.rest = TrimStart(SliceFrom(lineWrap.rest, LineCut(lineWrap.rest)))]
  /\ LineWrapUnchanged

\* lines 286-288: what is left is pushed
LineWrapFinish ==
  /\ lineWrap.pc = "loop"
  /\ Len(lineWrap.rest) <= PDF_MAX_LINE_LENGTH
  /\ lineWrap' = [lineWrap EXCEPT !.pc = "done", !.rest = "",
                                  !.wrapped = WrapTail(@, lineWrap.rest)]
  /\ LineWrapUnchanged

WrapLoopsNext ==
  \/ WrapBegin
  \/ WrapIterate
  \/ WrapFinish
  \/ LineWrapBegin
  \/ LineWrapIterate
  \/ LineWrapFinish

\* the call is synchronous: a loop that can take a step takes it
SpecWrapLoops ==
  /\ WrapLoopsInit
  /\ [][WrapLoopsNext]_vars
  /\ WF_vars(WrapIterate)
  /\ WF_vars(WrapFinish)

\* C17: every iteration of the wrap loop of wrapPdfCellText (maxChars a
\* positive integer) and of wrapPdfLines leaves a strictly shorter remaining
\* text, a loop has iterated at most as often as its input text has
\* characters, and a call of wrapPdfCellText that entered its loop leaves it.
C17_WrapLoopsTerminate ==
  /\ [][/\ WrapIterate => Len(wrapCall'.rest) < Len(wrapCall.rest)
        /\ LineWrapIterate => Len(lineWrap'.rest) < Len(lineWrap.rest)]_vars
  /\ [](/\ wrapCall.pc = "loop" => Len(wrapCall.wrapped) <= Len(wrapCall.input)
        /\ lineWrap.pc = "loop" => Len(lineWrap.wrapped) <= Len(lineWrap.rawLine))
  /\ (wrapCall.pc = "loop") ~> (wrapCall.pc \in {"done", "threw"})

\* a cell text wrapped in three iterations, then a line of 480 characters
\* wrapped in three iterations
C17_Witness ==
  /\ wrapCall.pc = "done"
  /\ wrapCall.input = "ab abcd ab"
  /\ wrapCall.maxChars = 2
  /\ lineWrap.pc = "done"
  /\ lineWrap.rawLine = Repeat("lorem ipsum ", 40)
  /\ Len(lineWrap.wrapped) >= 4

(***************************************************************************)
(* Pagination of buildSimplePdf, read from the returned file.              *)
(***************************************************************************)
\* Math.ceil(n / d) for positive d
CeilDiv(n, d) == (n + d - 1) \div d

\* the page objects of the file
PageObjectsIn(file) == Occurrences(file, "<< /Type /Page /Parent")

\* the texts shown by a content stream: the title and the lines
TextsShownIn(stream) == Occurrences(stream, ") Tj")

\* C18: buildSimplePdf paginates by line count only: linesPerPage is 42; with
\* W wrapped body lines the file holds max(1, ceil(W / 42)) page objects,
\* every page but the last carries 42 lines, the pages in order carry the
\* wrapped lines in order without loss or duplication, each stream shows its
\* title and its lines, and no line gives one page with the title only.
C18_PaginatesByLineCount ==
  SimpleDone =>
    LET bodyLines == wrapPdfLines(simplePdf.lines)
        pages == simplePdf.pages
    IN  /\ linesPerPage = 42
        /\ Cardinality(PageObjectsIn(simplePdf.pdf)) = Max(1, CeilDiv(Len(bodyLines), 42))
        /\ Len(pages) = Cardinality(PageObjectsIn(simplePdf.pdf))
        /\ \A p \in 1..(Len(pages) - 1) : Len(pages[p]) = 42
        /\ Len(pages[Len(pages)]) <= 42
        /\ AppendAll(pages) = bodyLines
        /\ \A p \in 1..Len(pages) :
             Cardinality(TextsShownIn(simplePdf.streams[p])) = Len(pages[p]) + 1
        /\ bodyLines = <<>> => pages = << <<>> >>

\* 85 lines on three pages of 42, 42 and 1 lines
C18_Witness ==
  /\ SimpleDone
  /\ Len(wrapPdfLines(simplePdf.lines)) = 2 * 42 + 1
  /\ Len(simplePdf.pages) = 3
  /\ Len(simplePdf.pages[3]) = 1

(***************************************************************************)
(* optimizeScenarioPlan.  Days are integers in thousandths of a day,       *)
(* scores are integers in tenths.  The tolerance 0.000001 of the           *)
(* comparisons is below one thousandth, so a comparison of days with the   *)
(* tolerance is the comparison of the integers.                            *)
(***************************************************************************)
MaxItems == 2

\* Math.round(value * 100) / 100 for a value that is not negative
Round2(value) == ((value + 5) \div 10) * 10

Abs(n) == IF n < 0 THEN 0 - n ELSE n

SCENARIO_TYPE_BY_ROW(row) ==
  IF row \in {7, 24, 25, 27} THEN "Strategy & Foundation"
  ELSE IF row \in 8..14 THEN "Cloud ERP Journey"
  ELSE IF row \in 15..17 THEN "Finance & Spend Transformation"
  ELSE IF row \in 18..20 THEN "Line-of-Business Transformation"
  ELSE IF row \in {21, 22, 23, 26} THEN "Platform, Data & Integration"
  ELSE IF row = 28 THEN "Cybersecurity & Compliance"
  ELSE ""

classifyScenarioType(row) ==
  IF SCENARIO_TYPE_BY_ROW(row) = "" THEN "Strategy & Foundation"
  ELSE SCENARIO_TYPE_BY_ROW(row)

STRATEGY_WEIGHTS ==
  [balanced |-> [entryScore |-> 30, midUpgradeScore |-> 22, topUpgradeScore |-> 16,
                 typeCoverageBonus |-> 45],
   coverage |-> [entryScore |-> 42, midUpgradeScore |-> 16, topUpgradeScore |-> 12,
                 typeCoverageBonus |-> 75],
   depth |-> [entryScore |-> 22, midUpgradeScore |-> 32, topUpgradeScore |-> 26,
              typeCoverageBonus |-> 35]]

LEVEL_TO_SIZE(level) ==
  IF level = 1 THEN "S" ELSE IF level = 2 THEN "M" ELSE IF level = 3 THEN "L" ELSE "N/A"

\* item.daysBySize[size]
DaysOfSize(item, size) ==
  IF size = "S" THEN item.daysBySize.S
  ELSE IF size = "M" THEN item.daysBySize.M
  ELSE item.daysBySize.L

normalizeTargetDays(value) == IF value <= 0 THEN 0 ELSE Round2(value)

resolveDaysAtLevel(item, level) ==
  IF level = 0 THEN 0 ELSE Max(0, DaysOfSize(item, LEVEL_TO_SIZE(level)))

\* Array.prototype.sort with a comparator that subtracts the keys: the
\* elements by ascending key, elements of equal key in their former order
SortByKey(elements, keys) ==
  LET position(i) ==
        1 + Cardinality({j \in 1..Len(elements) :
                           keys[j] < keys[i] \/ (keys[j] = keys[i] /\ j < i)})
  IN  [k \in 1..Len(elements) |->
         elements[CHOOSE i \in 1..Len(elements) : position(i) = k]]

\* Array.prototype.filter: the elements at the indexes kept, in order
RECURSIVE FilterIndexes(_, _, _)
FilterIndexes(elements, kept, index) ==
  IF index > Len(elements) THEN <<>>
  ELSE (IF index \in kept THEN <<elements[index]>> ELSE <<>>)
         \o FilterIndexes(elements, kept, index + 1)

\* lines 179-181: the line items of the candidate rows, sorted by row
CandidatesOf(lineItems, candidateRows) ==
  LET kept == {i \in 1..Len(lineItems) :
                 candidateRows.given => lineItems[i].row \in candidateRows.rows}
      filtered == FilterIndexes(lineItems, kept, 1)
  IN  SortByKey(filtered, [i \in 1..Len(filtered) |-> filtered[i].row])

\* the keys of rowsByType in the order of their insertion (lines 203-209)
TypesInOrder(candidates) ==
  LET first == {i \in 1..Len(candidates) :
                  \A j \in 1..(i - 1) :
                    classifyScenarioType(candidates[j].row)
                      # classifyScenarioType(candidates[i].row)}
  IN  [k \in 1..Cardinality(first) |->
         classifyScenarioType(FilterIndexes(candidates, first, 1)[k].row)]

\* lines 213-223: the row of smallest S days of one type
AnchorOfType(candidates, type) ==
  LET ofType == {i \in 1..Len(candidates) : classifyScenarioType(candidates[i].row) = type}
      rows == FilterIndexes(candidates, ofType, 1)
      sortedBySmallest ==
        SortByKey(rows, [i \in 1..Len(rows) |->
                           resolveDaysAtLevel(rows[i], 1) * 100 + rows[i].row])
  IN  [type |-> type, item |-> sortedBySmallest[1],
       days |-> resolveDaysAtLevel(sortedBySmallest[1], 1)]

\* lines 212-226: the anchors with days, by days then row
TypeAnchors(candidates) ==
  LET types == TypesInOrder(candidates)
      entries == [k \in 1..Len(types) |-> AnchorOfType(candidates, types[k])]
      withDays == FilterIndexes(entries, {k \in 1..Len(entries) : entries[k].days > 0}, 1)
  IN  SortByKey(withDays, [k \in 1..Len(withDays) |->
                             withDays[k].days * 100 + withDays[k].item.row])

NoStep ==
  [found |-> FALSE, row |-> 0, from |-> 0, to |-> 0, type |-> "", deltaDays |-> 0,
   deltaScore |-> 0, hadTypeCoverage |-> FALSE]

\* efficiency = deltaScore / deltaDays; left > right + 0.000001 and
\* |left - right| < 0.000001 for the efficiencies of two steps, as integer
\* comparisons: (tenths / 10) / (thousandths / 1000) = 100 * tenths / thousandths
EfficiencyGreater(leftScore, leftDays, rightScore, rightDays) ==
  leftScore * rightDays - rightScore * leftDays > (leftDays * rightDays) \div 100000000

EfficiencyClose(leftScore, leftDays, rightScore, rightDays) ==
  Abs(leftScore * rightDays - rightScore * leftDays)
    < (leftDays * rightDays + 99999999) \div 100000000

\* lines 283-290
shouldReplace(bestStep, row, deltaDays, deltaScore) ==
  \/ ~bestStep.found
  \/ EfficiencyGreater(deltaScore, deltaDays, bestStep.deltaScore, bestStep.deltaDays)
  \/ /\ EfficiencyClose(deltaScore, deltaDays, bestStep.deltaScore, bestStep.deltaDays)
     /\ \/ deltaScore > bestStep.deltaScore
        \/ /\ deltaScore = bestStep.deltaScore
           /\ \/ deltaDays < bestStep.deltaDays
              \/ (deltaDays = bestStep.deltaDays /\ row < bestStep.row)

\* lines 229 and 265: usedDays + days > targetDays + 0.000001
OverBudget(usedDays, days, targetDays) == usedDays + days > targetDays

\* lines 253-303: the for loop over the candidates of one turn of while (true)
RECURSIVE BestStepFrom(_, _, _, _, _, _, _)
BestStepFrom(candidates, index, bestStep, levels, selectedRows, usedDays, call) ==
  IF index > Len(candidates) THEN bestStep
  ELSE
    LET item == candidates[index]
        from == levels[item.row]
        to == from + 1
        deltaDays == resolveDaysAtLevel(item, to) - resolveDaysAtLevel(item, from)
        type == classifyScenarioType(item.row)
        hadTypeCoverage ==
          \E selectedRow \in selectedRows : classifyScenarioType(selectedRow) = type
        weights == STRATEGY_WEIGHTS[call.strategy]
        scoreBase == IF from = 0 THEN weights.entryScore
                     ELSE IF from = 1 THEN weights.midUpgradeScore
                     ELSE weights.topUpgradeScore
        deltaScore ==
          scoreBase + (IF from = 0 /\ ~hadTypeCoverage THEN weights.typeCoverageBonus ELSE 0)
        skipped == \/ from >= 3
                   \/ deltaDays <= 0
                   \/ OverBudget(usedDays, deltaDays, call.targetDays)
        next == IF ~skipped /\ shouldReplace(bestStep, item.row, deltaDays, deltaScore)
                THEN [found |-> TRUE, row |-> item.row, from |-> from, to |-> to,
                      type |-> type, deltaDays |-> deltaDays, deltaScore |-> deltaScore,
                      hadTypeCoverage |-> hadTypeCoverage]
                ELSE bestStep
    IN  BestStepFrom(candidates, index + 1, next, levels, selectedRows, usedDays, call)

toSelection(row, level) == [row |-> row, size |-> LEVEL_TO_SIZE(level)]

\* lines 331-334: the selections of the rows with a level, sorted by row
SelectionsOf(candidates, levels) ==
  LET selected == FilterIndexes(candidates,
                    {i \in 1..Len(candidates) : levels[candidates[i].row] # 0}, 1)
      entries == [i \in 1..Len(selected) |->
                    toSelection(selected[i].row, levels[selected[i].row])]
  IN  SortByKey(entries, [i \in 1..Len(entries) |-> entries[i].row])

RECURSIVE SumOf(_)
SumOf(numbers) == IF numbers = <<>> THEN 0 ELSE Head(numbers) + SumOf(Tail(numbers))

\* calculateQuickSizer(...).totals.selectedDays (quickSizer.ts lines 71-120):
\* the days of the selected size of every line item whose row has a selection
SelectedDaysTotal(candidates, levels) ==
  SumOf([i \in 1..Len(candidates) |->
           IF levels[candidates[i].row] = 0 THEN 0
           ELSE DaysOfSize(candidates[i], LEVEL_TO_SIZE(levels[candidates[i].row]))])

\* lines 374-395: one recommendation per selected item, by days descending
RecommendationsOf(candidates, levels, reasonByRow) ==
  LET selected == FilterIndexes(candidates,
                    {i \in 1..Len(candidates) : levels[candidates[i].row] # 0}, 1)
      entries ==
        [i \in 1..Len(selected) |->
           [row |-> selected[i].row,
            scenarioName |-> selected[i].name,
            scenarioType |-> classifyScenarioType(selected[i].row),
            size |-> LEVEL_TO_SIZE(levels[selected[i].row]),
            days |-> Round2(DaysOfSize(selected[i], LEVEL_TO_SIZE(levels[selected[i].row]))),
            reason |-> IF reasonByRow[selected[i].row] = "" THEN "Selected by optimizer."
                       ELSE reasonByRow[selected[i].row]]]
  IN  SortByKey(entries, [i \in 1..Len(entries) |-> entries[i].row - entries[i].days * 100])

emptyResult(strategy, targetDays) ==
  [strategy |-> strategy, targetDays |-> targetDays, totalDays |-> 0,
   selectedScenarioCount |-> 0, selections |-> <<>>, recommendations |-> <<>>]

\* the line items of the unit test, two items with days in thousandths, one
\* item of 0.004 days
ItemSamples ==
  {[row |-> 7, name |-> "Strategy Scenario",
    daysBySize |-> [S |-> 10000, M |-> 20000, L |-> 30000]],
   [row |-> 8, name |-> "Cloud Scenario",
    daysBySize |-> [S |-> 12000, M |-> 22000, L |-> 36000]],
   [row |-> 15, name |-> "Finance Scenario",
    daysBySize |-> [S |-> 8000, M |-> 16000, L |-> 28000]],
   [row |-> 9, name |-> "Migration Scenario",
    daysBySize |-> [S |-> 1000, M |-> 2004, L |-> 3008]],
   [row |-> 10, name |-> "Extension Scenario",
    daysBySize |-> [S |-> 1004, M |-> 2008, L |-> 2008]],
   [row |-> 18, name |-> "Workshop Scenario",
    daysBySize |-> [S |-> 4, M |-> 4, L |-> 4]]}

TargetDaysSamples == {0, 5010, 35000}

CandidateRowsSamples == {[given |-> FALSE, rows |-> {}], [given |-> TRUE, rows |-> {7, 15}]}

OptimizerInit ==
  /\ optimizer \in
       {[pc |-> "call", lineItems |-> items,
         options |-> [targetDays |-> target, strategy |-> strategy, candidateRows |-> rows],
         strategy |-> strategy, targetDays |-> 0, candidates |-> <<>>, levels |-> <<>>,
         reasonByRow |-> <<>>, selectedRowsSet |-> {}, usedDays |-> 0,
         typeAnchors |-> <<>>, anchor |-> 0, result |-> emptyResult(strategy, 0)] :
          items \in SeqsUpTo(ItemSamples, MaxItems),
          target \in TargetDaysSamples,
          strategy \in DOMAIN STRATEGY_WEIGHTS,
          rows \in CandidateRowsSamples}
  /\ PdfCallsIdle
  /\ sanitizeCall = [pc |-> "idle"]
  /\ lineWrap = [pc |-> "idle"]
  /\ returned = <<>>
  /\ calls = <<>>
  /\ spreadCall = [pc |-> "idle"]
  /\ db = [users |-> {}, sessions |-> {}, engagements |-> {}]
  /\ requests = <<>>

OptimizerUnchanged ==
  UNCHANGED <<wrapCall, pagination, simplePdf, reportPdf,
              sanitizeCall, lineWrap, returned, calls, spreadCall,
                 db, requests>>

\* lines 165-226: the options, the candidates, the maps, the anchors
OptimizerBegin ==
  /\ optimizer.pc = "call"
  /\ LET targetDays == normalizeTargetDays(optimizer.options.targetDays)
         candidates == CandidatesOf(optimizer.lineItems, optimizer.options.candidateRows)
         rows == {candidates[i].row : i \in 1..Len(candidates)}
         typeAnchors == TypeAnchors(candidates)
     IN  optimizer' =
           IF targetDays <= 0 \/ Len(candidates) = 0
           THEN [optimizer EXCEPT !.pc = "done", !.targetDays = targetDays,
                                  !.candidates = candidates,
                                  !.result = emptyResult(optimizer.strategy, targetDays)]
           ELSE [optimizer EXCEPT
                   !.pc = IF typeAnchors = <<>> THEN "greedy" ELSE "seed",
                   !.targetDays = targetDays,
                   !.candidates = candidates,
                   !.levels = [row \in rows |-> 0],
                   !.reasonByRow = [row \in rows |-> ""],
                   !.typeAnchors = typeAnchors,
                   !.anchor = 1]
  /\ OptimizerUnchanged

\* lines 228-237: one turn of the seeding loop
OptimizerSeedAnchor ==
  /\ optimizer.pc = "seed"
  /\ LET anchor == optimizer.typeAnchors[optimizer.anchor]
         pc == IF optimizer.anchor = Len(optimizer.typeAnchors) THEN "greedy" ELSE "seed"
     IN  optimizer' =
           IF OverBudget(optimizer.usedDays, anchor.days, optimizer.targetDays)
           THEN [optimizer EXCEPT !.pc = pc, !.anchor = @ + 1]
           ELSE [optimizer EXCEPT
                   !.pc = pc,
                   !.anchor = @ + 1,
                   !.levels[anchor.item.row] = 1,
                   !.selectedRowsSet = @ \cup {anchor.item.row},
                   !.usedDays = @ + anchor.days,
                   !.reasonByRow[anchor.item.row] =
                      "Selected as a low-effort coverage anchor for " \o anchor.type \o "."]
  /\ OptimizerUnchanged

BestStepOf(call) ==
  BestStepFrom(call.candidates, 1, NoStep, call.levels, call.selectedRowsSet,
               call.usedDays, call)

\* lines 314-328: the reason of the row after the step
ReasonAfter(bestStep, priorReason) ==
  IF bestStep.from = 0
  THEN IF bestStep.hadTypeCoverage
       THEN "Selected to broaden solution scope with efficient day usage."
       ELSE "Selected to establish coverage for " \o bestStep.type \o "."
  ELSE LET upgradeReason ==
             IF bestStep.from = 1
             THEN "Upgraded from S to M for stronger delivery depth."
             ELSE "Upgraded from M to L for maximum depth within target."
       IN  IF priorReason # "" THEN priorReason \o " " \o upgradeReason ELSE upgradeReason

\* OptimizerUpgrade that does not store the new level of the row
OptimizerUpgradeKeepsLevel ==
  /\ optimizer.pc = "greedy"
  /\ BestStepOf(optimizer).found
  /\ LET bestStep == BestStepOf(optimizer)
     IN  optimizer' =
           [optimizer EXCEPT
              !.selectedRowsSet = @ \cup {bestStep.row},
              !.usedDays = Round2(@ + bestStep.deltaDays),
              !.reasonByRow[bestStep.row] = ReasonAfter(bestStep, @)]
  /\ OptimizerUnchanged

\* lines 239-329: one turn of while (true) that finds a step and takes it
OptimizerUpgrade ==
  /\ optimizer.pc = "greedy"
  /\ BestStepOf(optimizer).found
  /\ LET bestStep == BestStepOf(optimizer)
     IN  optimizer' =
           [optimizer EXCEPT
              !.levels[bestStep.row] = bestStep.to,
              !.selectedRowsSet = @ \cup {bestStep.row},
              !.usedDays = Round2(@ + bestStep.deltaDays),
              !.reasonByRow[bestStep.row] = ReasonAfter(bestStep, @)]
  /\ OptimizerUnchanged

\* lines 306-308 and 331-410: no step is left; the selections, the totals,
\* the recommendations
OptimizerReturn ==
  /\ optimizer.pc = "greedy"
  /\ ~BestStepOf(optimizer).found
  /\ LET selections == SelectionsOf(optimizer.candidates, optimizer.levels)
     IN  optimizer' =
           [optimizer EXCEPT
              !.pc = "done",
              !.result =
                 IF Len(selections) = 0
                 THEN emptyResult(optimizer.strategy, optimizer.targetDays)
                 ELSE [strategy |-> optimizer.strategy,
                       targetDays |-> optimizer.targetDays,
                       totalDays |->
                         Round2(SelectedDaysTotal(optimizer.candidates, optimizer.levels)),
                       selectedScenarioCount |-> Len(selections),
                       selections |-> selections,
                       recommendations |->
                         RecommendationsOf(optimizer.candidates, optimizer.levels,
                                           optimizer.reasonByRow)]]
  /\ OptimizerUnchanged

OptimizerNext ==
  \/ OptimizerBegin
  \/ OptimizerSeedAnchor
  \/ OptimizerUpgrade
  \/ OptimizerReturn

SpecOptimizer == OptimizerInit /\ [][OptimizerNext]_vars

\* C19: for any line items, strategy, candidate rows and positive targetDays
\* the used-days counter never exceeds targetDays during the seeding pass and
\* the greedy loop, the returned totalDays does not exceed targetDays, and
\* every returned recommendation has days > 0.
C19_PlanWithinBudget ==
  /\ optimizer.pc \in {"seed", "greedy"} => optimizer.usedDays <= optimizer.targetDays
  /\ optimizer.pc = "done" =>
       /\ optimizer.result.totalDays <= optimizer.options.targetDays
       /\ \A k \in 1..Len(optimizer.result.recommendations) :
            optimizer.result.recommendations[k].days > 0

(***************************************************************************)
(* normalizeSpread (quickSizer.ts).  The numbers of the function are       *)
(* IEEE 754 doubles.  A value that is not negative is kept exactly, as     *)
(* n * 2^e with n a natural number of at most MantissaBits bits, held as   *)
(* a sequence of limbs in base LimbBase, least significant limb first.     *)
(* Every division, product and sum is computed exactly and then rounded    *)
(* to MantissaBits bits, to nearest, ties to even, as the double           *)
(* operation does.                                                         *)
(***************************************************************************)
LimbBits == 15

LimbBase == 32768

MantissaBits == 53

RECURSIVE Pow2(_)
Pow2(b) == IF b = 0 THEN 1 ELSE 2 * Pow2(b - 1)

RECURSIVE BitLengthOf(_)
BitLengthOf(n) == IF n = 0 THEN 0 ELSE 1 + BitLengthOf(n \div 2)

LimbAt(A, i) == IF i >= 1 /\ i <= Len(A) THEN A[i] ELSE 0

\* the limbs without zero limbs at the high end
RECURSIVE Strip(_)
Strip(A) ==
  IF A = <<>> THEN <<>>
  ELSE IF A[Len(A)] = 0 THEN Strip(SubSeq(A, 1, Len(A) - 1))
  ELSE A

NatOfInt(n) == Strip(<<n % LimbBase, n \div LimbBase>>)

RECURSIVE MulSmallFrom(_, _, _, _)
MulSmallFrom(A, k, i, carry) ==
  IF i > Len(A) THEN NatOfInt(carry)
  ELSE <<(A[i] * k + carry) % LimbBase>>
         \o MulSmallFrom(A, k, i + 1, (A[i] * k + carry) \div LimbBase)

\* A * k for 0 <= k <= LimbBase
MulSmall(A, k) == Strip(MulSmallFrom(A, k, 1, 0))

RECURSIVE AddFrom(_, _, _, _)
AddFrom(A, B, i, carry) ==
  IF i > Len(A) /\ i > Len(B) THEN NatOfInt(carry)
  ELSE <<(LimbAt(A, i) + LimbAt(B, i) + carry) % LimbBase>>
         \o AddFrom(A, B, i + 1, (LimbAt(A, i) + LimbAt(B, i) + carry) \div LimbBase)

AddNat(A, B) == Strip(AddFrom(A, B, 1, 0))

NatBitLength(A) ==
  IF A = <<>> THEN 0 ELSE LimbBits * (Len(A) - 1) + BitLengthOf(A[Len(A)])

\* A * 2^s
ShiftLeft(A, s) ==
  IF A = <<>> THEN <<>>
  ELSE [i \in 1..(s \div LimbBits) |-> 0] \o MulSmall(A, Pow2(s % LimbBits))

\* floor(A / 2^d)
ShiftRight(A, d) ==
  LET B == SubSeq(A, d \div LimbBits + 1, Len(A))
      b == d % LimbBits
  IN  Strip([i \in 1..Len(B) |->
               B[i] \div Pow2(b) + (LimbAt(B, i + 1) % Pow2(b)) * Pow2(LimbBits - b)])

\* bit number pos of A, bit 0 the least significant
BitAt(A, pos) == (LimbAt(A, pos \div LimbBits + 1) \div Pow2(pos % LimbBits)) % 2

\* A mod 2^d = 0
LowBitsZero(A, d) == \A pos \in 0..(d - 1) : BitAt(A, pos) = 0

\* A < B
NatLess(A, B) ==
  \/ Len(A) < Len(B)
  \/ /\ Len(A) = Len(B)
     /\ \E i \in 1..Len(A) : A[i] < B[i] /\ \A j \in (i + 1)..Len(A) : A[j] = B[j]

\* B - A for A <= B
RECURSIVE SubFrom(_, _, _, _)
SubFrom(B, A, i, borrow) ==
  IF i > Len(B) THEN <<>>
  ELSE LET t == B[i] - LimbAt(A, i) - borrow
       IN  <<(t + LimbBase) % LimbBase>> \o SubFrom(B, A, i + 1, IF t < 0 THEN 1 ELSE 0)

SubNat(B, A) == Strip(SubFrom(B, A, 1, 0))

\* the double nearest to n * 2^e, ties to even; more marks an exact value
\* that lies above n * 2^e by less than 2^e
RoundToDouble(n, e, more) ==
  LET d == NatBitLength(n) - MantissaBits
      q == ShiftRight(n, d)
      up == /\ BitAt(n, d - 1) = 1
            /\ (~LowBitsZero(n, d - 1) \/ more \/ BitAt(q, 0) = 1)
  IN  IF d <= 0 THEN [n |-> n, e |-> e]
      ELSE [n |-> IF up THEN AddNat(q, <<1>>) ELSE q, e |-> e + d]

DoubleOfInt(n) == [n |-> NatOfInt(n), e |-> 0]

\* the natural number x / 2^e for e <= x.e
Aligned(x, e) == ShiftLeft(x.n, x.e - e)

DoubleLess(x, y) == NatLess(Aligned(x, Min(x.e, y.e)), Aligned(y, Min(x.e, y.e)))

DoubleEqual(x, y) == Aligned(x, Min(x.e, y.e)) = Aligned(y, Min(x.e, y.e))

\* x + y of two doubles, not rounded
ExactSum(x, y) ==
  [n |-> AddNat(Aligned(x, Min(x.e, y.e)), Aligned(y, Min(x.e, y.e))), e |-> Min(x.e, y.e)]

\* |x - y| of two doubles, not rounded
ExactDistance(x, y) ==
  LET e == Min(x.e, y.e)
  IN  [n |-> IF NatLess(Aligned(x, e), Aligned(y, e))
             THEN SubNat(Aligned(y, e), Aligned(x, e))
             ELSE SubNat(Aligned(x, e), Aligned(y, e)),
       e |-> e]

\* the remainder after k limbs of the long division a / b
RECURSIVE DivisionRemainder(_, _, _)
DivisionRemainder(a, b, k) ==
  IF k = 0 THEN a % b ELSE (DivisionRemainder(a, b, k - 1) * LimbBase) % b

FractionLimbs == 5

\* a / b for integers 0 <= a < LimbBase, 0 < b < LimbBase
DoubleDivide(a, b) ==
  LET digit(k) == (DivisionRemainder(a, b, k - 1) * LimbBase) \div b
      quotient == Strip([i \in 1..FractionLimbs |-> digit(FractionLimbs + 1 - i)]
                          \o <<a \div b>>)
  IN  RoundToDouble(quotient, 0 - LimbBits * FractionLimbs,
                    DivisionRemainder(a, b, FractionLimbs) # 0)

\* k * x for an integer 0 <= k <= LimbBase and a double x
DoubleTimes(k, x) == RoundToDouble(MulSmall(x.n, k), x.e, FALSE)

DoublePlus(x, y) == RoundToDouble(ExactSum(x, y).n, ExactSum(x, y).e, FALSE)

SpreadKeys == <<"y1", "y2", "y3", "y4", "y5">>

DEFAULT_SPREAD == [y1 |-> 50, y2 |-> 25, y3 |-> 25, y4 |-> 0, y5 |-> 0]

\* sanitizeSpreadValue without the cap at 100
sanitizeSpreadValueWithoutCap(component) ==
  IF component.kind # "number" THEN 0
  ELSE IF component.value < 0 THEN 0
  ELSE component.value

\* lines 15-26: a component is a number, or a value that is no finite number
sanitizeSpreadValue(component) ==
  IF component.kind # "number" THEN 0
  ELSE IF component.value < 0 THEN 0
  ELSE IF component.value > 100 THEN 100
  ELSE component.value

\* spread?.yN ?? DEFAULT_SPREAD.yN
OrDefault(spread, key) ==
  IF spread[key].kind = "missing"
  THEN [kind |-> "number", value |-> DEFAULT_SPREAD[key]]
  ELSE spread[key]

\* lines 28-50
normalizeSpread(spread) ==
  LET raw == [key \in DOMAIN DEFAULT_SPREAD |-> sanitizeSpreadValue(OrDefault(spread, key))]
      total == raw.y1 + raw.y2 + raw.y3 + raw.y4 + raw.y5
      factor == DoubleDivide(100, total)
  IN  IF total <= 100
      THEN [key \in DOMAIN DEFAULT_SPREAD |-> DoubleOfInt(raw[key])]
      ELSE [key \in DOMAIN DEFAULT_SPREAD |-> DoubleTimes(raw[key], factor)]

\* a component left out, NaN, a negative number, numbers up to 100, a number
\* above 100
SpreadComponents ==
  {[kind |-> "missing", value |-> 0], [kind |-> "NaN", value |-> 0]}
    \cup {[kind |-> "number", value |-> v] : v \in {0 - 20, 20, 30, 40, 100, 150}}

SpreadInit ==
  /\ spreadCall \in
       {[pc |-> "call", spread |-> spread,
         result |-> [key \in DOMAIN DEFAULT_SPREAD |-> DoubleOfInt(0)]] :
          spread \in [DOMAIN DEFAULT_SPREAD -> SpreadComponents]}
  /\ PdfCallsIdle
  /\ sanitizeCall = [pc |-> "idle"]
  /\ lineWrap = [pc |-> "idle"]
  /\ returned = <<>>
  /\ calls = <<>>
  /\ optimizer = [pc |-> "idle"]
  /\ db = [users |-> {}, sessions |-> {}, engagements |-> {}]
  /\ requests = <<>>

SpreadNormalize ==
  /\ spreadCall.pc = "call"
  /\ spreadCall' = [spreadCall EXCEPT !.pc = "done",
                                      !.result = normalizeSpread(spreadCall.spread)]
  /\ UNCHANGED <<wrapCall, pagination, simplePdf, reportPdf,
                 sanitizeCall, lineWrap, returned, calls, optimizer,
                 db, requests>>

SpreadNext == SpreadNormalize

SpecSpread == SpreadInit /\ [][SpreadNext]_vars

\* what the claim expects of one component before the scaling
ClampedComponent(spread, key) ==
  LET component == OrDefault(spread, key)
  IN  IF component.kind # "number" \/ component.value < 0 THEN 0
      ELSE IF component.value > 100 THEN 100
      ELSE component.value

ClampedTotal(spread) ==
  SumOf([i \in 1..Len(SpreadKeys) |-> ClampedComponent(spread, SpreadKeys[i])])

\* the sum of the five components of a result, not rounded
SpreadSum(result) ==
  ExactSum(ExactSum(ExactSum(ExactSum(result.y1, result.y2), result.y3), result.y4),
           result.y5)

\* 2^-30, below 0.000000001
SpreadTolerance == [n |-> <<1>>, e |-> 0 - 30]

\* what the two statements of the claim share: every component is in
\* [0, 100]; without scaling a component is its clamped input; the order
\* relations of the clamped components are those of the result; with scaling
\* every component is 100 / total of its clamped input, up to the tolerance
SpreadClampedAndOrdered(spread, result) ==
  /\ \A key \in DOMAIN DEFAULT_SPREAD : ~DoubleLess(DoubleOfInt(100), result[key])
  /\ ClampedTotal(spread) <= 100 =>
       \A key \in DOMAIN DEFAULT_SPREAD :
         DoubleEqual(result[key], DoubleOfInt(ClampedComponent(spread, key)))
  /\ \A left, right \in DOMAIN DEFAULT_SPREAD :
       ClampedComponent(spread, left) < ClampedComponent(spread, right)
         <=> DoubleLess(result[left], result[right])
  /\ ClampedTotal(spread) > 100 =>
       \A key \in DOMAIN DEFAULT_SPREAD :
         DoubleLess(ExactDistance([n |-> MulSmall(result[key].n, ClampedTotal(spread)),
                                   e |-> result[key].e],
                                  DoubleOfInt(100 * ClampedComponent(spread, key))),
                    SpreadTolerance)

\* C20 as stated: for any input spread the five components are in [0, 100]
\* with a sum of at most 100; negative and non-finite components become 0,
\* components above 100 become 100, and when the clamped sum exceeds 100 the
\* components are scaled by one factor, the sum is 100 and the order is kept.
C20_SpreadSumAtMostHundred ==
  spreadCall.pc = "done" =>
    /\ SpreadClampedAndOrdered(spreadCall.spread, spreadCall.result)
    /\ ~DoubleLess(DoubleOfInt(100), SpreadSum(spreadCall.result))
    /\ ClampedTotal(spreadCall.spread) > 100 =>
         DoubleEqual(SpreadSum(spreadCall.result), DoubleOfInt(100))

\* C20 amended: as above, but after the scaling the sum is 100 up to the
\* rounding of the double operations: it differs from 100, in either
\* direction, by less than 0.000000001.
C20_SpreadSumCloseToHundred ==
  spreadCall.pc = "done" =>
    /\ SpreadClampedAndOrdered(spreadCall.spread, spreadCall.result)
    /\ ClampedTotal(spreadCall.spread) <= 100 =>
         ~DoubleLess(DoubleOfInt(100), SpreadSum(spreadCall.result))
    /\ ClampedTotal(spreadCall.spread) > 100 =>
         DoubleLess(ExactDistance(SpreadSum(spreadCall.result), DoubleOfInt(100)),
                    SpreadTolerance)

\* the spread of the unit test, scaled by 100 / 190: y2 is 0, y1 exceeds y3
C20_Witness ==
  /\ spreadCall.pc = "done"
  /\ spreadCall.spread.y1.value = 150
  /\ spreadCall.spread.y2.value = 0 - 20
  /\ spreadCall.spread.y3.value = 40
  /\ spreadCall.spread.y4.value = 30
  /\ spreadCall.spread.y5.value = 20
  /\ DoubleEqual(spreadCall.result.y2, DoubleOfInt(0))
  /\ DoubleLess(spreadCall.result.y3, spreadCall.result.y1)
  /\ ~DoubleEqual(SpreadSum(spreadCall.result), DoubleOfInt(100))

(***************************************************************************)
(* Greedy pagination                                                       *)
(***************************************************************************)
\* C25: pagination is greedy: for every pair of consecutive returned pages k
\* and k + 1, the cumulative height of page k plus the height of the first
\* row of page k + 1 is strictly greater than usableHeight.
C25_PaginationGreedy ==
  pagination.pc = "done" =>
    \A k \in 1..(Len(pagination.pages) - 1) :
      /\ pagination.pages[k + 1] # <<>>
      /\ SumHeights(pagination.pages[k]) + pagination.pages[k + 1][1].rowHeight
           > usableHeight

\* a full page of several rows is followed by a page whose first row would
\* have fitted on an emptier page
C25_Witness ==
  /\ pagination.pc = "done"
  /\ Len(pagination.pages) >= 3
  /\ Len(pagination.pages[1]) >= 2
  /\ SumHeights(pagination.pages[1]) < usableHeight
  /\ pagination.pages[2][1].rowHeight < usableHeight

(***************************************************************************)
(* The cut of one line of wrapPdfCellText                                  *)
(***************************************************************************)
\* the indexes up to last at which rest holds a space
SpaceIndexes(rest, last) ==
  {k \in 0..last : k < Len(rest) /\ CharAt(rest, k) = " "}

\* the last space of the window ending at index last, or -1
LastSpaceUpTo(rest, last) ==
  IF SpaceIndexes(rest, last) = {} THEN -1 ELSE SetMax(SpaceIndexes(rest, last))

NoOuterSpace(line) ==
  /\ line # ""
  /\ CharAt(line, 0) # " "
  /\ CharAt(line, Len(line) - 1) # " "

\* one iteration applied to rest pushed line: the cut is the last space of
\* the window ending at index last when that space is at or past 55% of
\* maxChars, and maxChars otherwise
LineCutByWindow(rest, maxChars, last, line) ==
  LET space == LastSpaceUpTo(rest, last)
      qualifies == space >= FloorPercent(maxChars, 55)
  IN  /\ qualifies => line = SubSeq(rest, 1, space)
      /\ ~qualifies => line = SubSeq(rest, 1, maxChars)
      /\ NoOuterSpace(line)
      /\ qualifies => CharAt(rest, Len(line)) = " "

\* C26 as stated: whenever the remaining text is longer than maxChars, the
\* next line is cut at the last space among the first maxChars characters
\* when that space lies past 55% of the window, and is otherwise hard-cut at
\* exactly maxChars characters; every emitted line has no leading or trailing
\* space and no word is broken when a qualifying space exists.
C26_CutWithinFirstMaxChars ==
  [][WrapIterate =>
       LineCutByWindow(wrapCall.rest, wrapCall.maxChars, wrapCall.maxChars - 1,
                       wrapCall'.wrapped[Len(wrapCall'.wrapped)])]_vars

\* C26 amended: the window in which the last space is looked for is the first
\* maxChars + 1 characters (indexes 0 to maxChars), so that a space right
\* after the maxChars-th character gives a line of exactly maxChars
\* characters that ends with a whole word; the rest is as stated, and every
\* line the loop has pushed is non-empty without leading or trailing space.
C26_CutWithinWindow ==
  /\ [][WrapIterate =>
          LineCutByWindow(wrapCall.rest, wrapCall.maxChars, wrapCall.maxChars,
                          wrapCall'.wrapped[Len(wrapCall'.wrapped)])]_vars
  /\ [](\A i \in 1..Len(wrapCall.wrapped) : NoOuterSpace(wrapCall.wrapped[i]))

\* the text "a b a" wrapped at 3 characters: the space at index 3 is used,
\* not the space at index 1
C26_Witness ==
  /\ wrapCall.pc = "done"
  /\ wrapCall.input = "a b a"
  /\ wrapCall.maxChars = 3
  /\ wrapCall.wrapped = <<"a b", "a">>

(***************************************************************************)
(* One call of buildEngagementReportRows                                   *)
(***************************************************************************)
MaxResultRows == 2

\* rows of a result: a preset size, a custom size, and a second row with the
\* number of the first
ResultRowSamples ==
  {[row |-> 7, name |-> "Architecture", size |-> "M", selectedDays |-> 4000],
   [row |-> 12, name |-> "Custom (Ops)", size |-> "Custom", selectedDays |-> 123450],
   [row |-> 7, name |-> "Architecture again", size |-> "L", selectedDays |-> 6000]}

\* service details of a row: none, one, two with a missing section name
DetailListSamples ==
  {<<>>,
   <<[serviceName |-> "Architecture Point of View",
      sectionName |-> <<"SAP Architecture">>, days |-> 4000]>>,
   <<[serviceName |-> "Scenario Total", sectionName |-> <<>>, days |-> 1000],
     [serviceName |-> "Go-Live Check", sectionName |-> <<"Realize">>, days |-> 3000]>>}

ReportRowsInputs ==
  {[result |-> [rows |-> rows, totals |-> [selectedDays |-> 128700]],
    serviceSummaryByRow |-> summary,
    serviceDetailsByRow |-> details] :
     rows \in SeqsUpTo(ResultRowSamples, MaxResultRows),
     summary \in {<<>>, [n \in {12} |-> "Operations"]},
     details \in {<<>>} \cup [{7} -> DetailListSamples] \cup [{7, 12} -> DetailListSamples]}

ReportRowsInit ==
  /\ reportPdf \in {[ReportPdfIdle EXCEPT !.pc = "build", !.args = a] : a \in ReportRowsInputs}
  /\ wrapCall = WrapIdle
  /\ pagination = PaginationIdle
  /\ simplePdf = SimplePdfIdle
  /\ OtherCallsIdle

\* lines 598-658
ReportBuildRows ==
  /\ reportPdf.pc = "build"
  /\ reportPdf' = [reportPdf EXCEPT !.pc = "built",
                                    !.rows = buildEngagementReportRows(reportPdf.args)]
  /\ UNCHANGED <<wrapCall, pagination, simplePdf, otherCalls>>

ReportRowsNext == ReportBuildRows

SpecReportRows == ReportRowsInit /\ [][ReportRowsNext]_vars

\* d_i: the number of service details given for the i-th row of the result
DetailCount(args, i) ==
  IF args.result.rows[i].row \in DOMAIN args.serviceDetailsByRow
  THEN Len(args.serviceDetailsByRow[args.result.rows[i].row])
  ELSE 0

\* the number of report rows of the first n rows of the result
RECURSIVE ReportRowsBefore(_, _)
ReportRowsBefore(args, n) ==
  IF n = 0 THEN 0
  ELSE ReportRowsBefore(args, n - 1) + Max(1, DetailCount(args, n)) + 1

\* C27: for R rows of the result with d_i service details each, the report
\* has sum(max(1, d_i)) + R + 1 rows: per row of the result, in order, its
\* d_i service rows in detail order (one row of variant "empty" when
\* d_i = 0), then one "Scenario Total" row with the row's selectedDays; the
\* last row is the one "Grand Total" row; only the first service row of a
\* scenario carries its row label, name and size.
C27_ReportRowsShape ==
  reportPdf.pc = "built" =>
    LET args == reportPdf.args
        rows == reportPdf.rows
        R == Len(args.result.rows)
    IN  /\ Len(rows) = ReportRowsBefore(args, R) + 1
        /\ rows[Len(rows)].variant = "grandTotal"
        /\ rows[Len(rows)].service = "Grand Total"
        /\ Cardinality({k \in 1..Len(rows) : rows[k].variant = "grandTotal"}) = 1
        /\ Cardinality({k \in 1..Len(rows) : rows[k].variant = "scenarioTotal"}) = R
        /\ \A i \in 1..R :
             LET row == args.result.rows[i]
                 first == ReportRowsBefore(args, i - 1) + 1
                 d == DetailCount(args, i)
                 total == rows[first + Max(1, d)]
             IN  /\ total.variant = "scenarioTotal"
                 /\ total.service = "Scenario Total"
                 /\ total.days = row.selectedDays
                 /\ rows[first].rowLabel = NumToString(row.row)
                 /\ rows[first].scenario = row.name
                 /\ rows[first].size = row.size
                 /\ d = 0 => rows[first].variant = "empty"
                 /\ \A k \in 1..d :
                      /\ rows[first + k - 1].variant = "service"
                      /\ rows[first + k - 1].service =
                           args.serviceDetailsByRow[row.row][k].serviceName
                      /\ rows[first + k - 1].days =
                           args.serviceDetailsByRow[row.row][k].days
                      /\ k > 1 => /\ rows[first + k - 1].rowLabel = ""
                                  /\ rows[first + k - 1].scenario = ""
                                  /\ rows[first + k - 1].size = ""

\* two rows of the result, the first with two details and the second with
\* none: 2 + 1 + 1 + 1 + 1 = 6 report rows
C27_Witness ==
  /\ reportPdf.pc = "built"
  /\ Len(reportPdf.args.result.rows) = 2
  /\ DetailCount(reportPdf.args, 1) = 2
  /\ DetailCount(reportPdf.args, 2) = 0
  /\ Len(reportPdf.rows) = 6
  /\ reportPdf.rows[4].variant = "empty"

(***************************************************************************)
(* The rows of a page of the report                                        *)
(***************************************************************************)
\* the separator line the page stream draws under a row whose bottom edge
\* is at y
RowBottomLineText(y) ==
  FormatNumber(tableX) \o " " \o FormatNumber(y) \o " m\n"
    \o FormatNumber(tableRightX) \o " " \o FormatNumber(y) \o " l\nS"

\* the number of lines of a prepared row
LineCountOf(row) ==
  Max(Max(1, Len(row.scenarioLines)), Max(Len(row.serviceLines), Len(row.sectionLines)))

\* C28: on every page of the report the rows are stacked downward from the
\* header band without gap or overlap (the separator under row i is drawn at
\* the header bottom minus the heights of rows 1 to i, and the first text
\* line of row i is 10 below the bottom edge of row i - 1), the bottom edge
\* of the last row is at or above REPORT_TABLE_BOTTOM_Y, and every prepared
\* row has 1 to 3 lines and the height 8 + lines * 8.8 <= 34.4 <= usableHeight.
C28_RowsStackedAboveFooter ==
  ReportDone =>
    \A p \in 1..Len(reportPdf.pages) :
      LET page == reportPdf.pages[p]
          stream == reportPdf.streams[p]
      IN  /\ headerBottomY - SumHeights(page) >= 100 * REPORT_TABLE_BOTTOM_Y
          /\ \A i \in 1..Len(page) :
               LET top == headerBottomY - SumHeights(SubSeq(page, 1, i - 1))
                   bottom == top - page[i].rowHeight
               IN  /\ LineCountOf(page[i]) \in 1..3
                   /\ page[i].rowHeight =
                        800 + LineCountOf(page[i]) * REPORT_ROW_LINE_HEIGHT_HUNDREDTHS
                   /\ page[i].rowHeight <= 3440
                   /\ 3440 <= usableHeight
                   /\ Occurrences(stream, RowBottomLineText(bottom)) # {}
                   /\ Occurrences(stream, " " \o FormatNumber(top - 1000) \o " Tm") # {}

\* a report of two pages whose first page is filled to within one row of the
\* usable height
C28_Witness ==
  /\ ReportDone
  /\ Len(reportPdf.pages) = 2
  /\ Len(reportPdf.pages[1]) >= 9
  /\ SumHeights(reportPdf.pages[1]) + 3440 > usableHeight
  /\ \E i \in 1..Len(reportPdf.pages[1]) : LineCountOf(reportPdf.pages[1][i]) = 3

(***************************************************************************)
(* The text kept by the two wraps                                          *)
(***************************************************************************)
\* text with its spaces removed
WithoutSpaces(text) ==
  Concat([i \in 1..Len(text) |-> IF CharAt(text, i - 1) = " " THEN "" ELSE CharAt(text, i - 1)])

\* the lines concatenated in order, spaces removed
TextOfLines(lines) == WithoutSpaces(Concat(lines))

\* the lines wrapPdfLines pushes for a raw line keep its sanitized text
LineWrapKeepsText ==
  lineWrap.pc = "done" =>
    TextOfLines(lineWrap.wrapped) = WithoutSpaces(toPdfSafeAscii(lineWrap.rawLine))

\* C29 as stated: the lines returned by wrapPdfLines, and the lines returned
\* by wrapPdfCellText whenever the greedy wrap needs at most maxLines lines,
\* concatenated in order with all spaces removed, equal the sanitized input
\* with all whitespace removed.
C29_WrapsKeepText ==
  /\ LineWrapKeepsText
  /\ (wrapCall.pc = "done" /\ Len(wrapCall.wrapped) <= wrapCall.maxLines) =>
       TextOfLines(wrapCall.result) = WithoutSpaces(toPdfSafeAscii(wrapCall.input))

\* C29 amended: as stated for wrapPdfLines, and for wrapPdfCellText whenever
\* the sanitized input is not blank and the greedy wrap needs at most
\* maxLines lines; for a blank input wrapPdfCellText returns the one line
\* emptyPlaceholder, whatever text that is.
C29_WrapsKeepTextOrPlaceholder ==
  /\ LineWrapKeepsText
  /\ (/\ wrapCall.pc = "done"
      /\ Len(wrapCall.wrapped) <= wrapCall.maxLines
      /\ WrapSafe(wrapCall.input) # "") =>
       TextOfLines(wrapCall.result) = WithoutSpaces(toPdfSafeAscii(wrapCall.input))
  /\ (wrapCall.pc = "done" /\ WrapSafe(wrapCall.input) = "") =>
       wrapCall.result = <<wrapCall.emptyPlaceholder>>

\* a cell text returned as two lines without the spaces around the cut, and
\* a raw line returned by wrapPdfLines
C29_Witness ==
  /\ wrapCall.pc = "done"
  /\ Len(wrapCall.result) = 2
  /\ Len(wrapCall.wrapped) = 2
  /\ Len(wrapCall.result[1]) + Len(wrapCall.result[2]) + 2 <= Len(wrapCall.input)
  /\ Len(wrapCall.result[1]) >= 2
  /\ lineWrap.pc = "done"
  /\ lineWrap.wrapped # <<>>

(***************************************************************************)
(* Termination of the greedy loop of optimizeScenarioPlan                  *)
(***************************************************************************)
\* the loop is left to run: a turn that can be taken is taken
SpecOptimizerFair ==
  /\ OptimizerInit
  /\ [][OptimizerNext]_vars
  /\ WF_vars(OptimizerUpgrade)
  /\ WF_vars(OptimizerReturn)

\* the rows whose level of before differs from the level of after
RowsRaised(before, after) == {row \in DOMAIN before : before[row] # after[row]}

\* the upgrades of one step that a call can still afford: a candidate below
\* L whose next size costs more days, within what is left of the target
AffordableUpgrades(call) ==
  {i \in 1..Len(call.candidates) :
     LET item == call.candidates[i]
         from == call.levels[item.row]
     IN  /\ from < 3
         /\ resolveDaysAtLevel(item, from + 1) > resolveDaysAtLevel(item, from)
         /\ call.usedDays + resolveDaysAtLevel(item, from + 1)
              - resolveDaysAtLevel(item, from) <= call.targetDays}

LevelSum(call) ==
  SumOf([i \in 1..Len(call.candidates) |-> call.levels[call.candidates[i].row]])

\* C30: the greedy loop terminates: each iteration raises the level of
\* exactly one candidate row by exactly one step with a strictly positive day
\* increase, no level decreases or exceeds L, the levels a loop can reach
\* bound its iterations by 3 times the number of candidates, and the loop
\* stops as soon as no affordable upgrade exists.
C30_GreedyLoopTerminates ==
  /\ [][OptimizerUpgrade =>
          \E i \in AffordableUpgrades(optimizer) :
            LET item == optimizer.candidates[i]
            IN  /\ RowsRaised(optimizer.levels, optimizer'.levels) = {item.row}
                /\ optimizer'.levels[item.row] = optimizer.levels[item.row] + 1
                /\ resolveDaysAtLevel(item, optimizer'.levels[item.row])
                     > resolveDaysAtLevel(item, optimizer.levels[item.row])]_vars
  /\ [][OptimizerReturn => AffordableUpgrades(optimizer) = {}]_vars
  /\ [](optimizer.pc \in {"seed", "greedy"} =>
          /\ \A row \in DOMAIN optimizer.levels : optimizer.levels[row] \in 0..3
          /\ LevelSum(optimizer) <= 3 * Len(optimizer.candidates))
  /\ (optimizer.pc = "greedy") ~> (optimizer.pc = "done")

\* a loop that took a row to L and another row to a lower size, then stopped
C30_Witness ==
  /\ optimizer.pc = "done"
  /\ Len(optimizer.candidates) = 2
  /\ \E row \in DOMAIN optimizer.levels : optimizer.levels[row] = 3
  /\ \E row \in DOMAIN optimizer.levels : optimizer.levels[row] \in 1..2

(***************************************************************************)
(* Authentication (src/unnamed/part_001): users, roles and the local user  *)
(* of the auth-disabled mode.                                              *)
(***************************************************************************)

\* the requests under way at the same time
MaxRequests == 3

READ_ONLY_ROLES == {"ADMIN", "PLANNER", "VIEWER"}

EDITOR_ROLES == {"ADMIN", "PLANNER"}

DEMO_LOGIN_EMAIL == "demo@quicksizer.local"

\* the value of a missing user (null)
NoUser == [id |-> 0, email |-> "", role |-> ""]

isRoleAllowed(userRole, allowedRoles) ==
  allowedRoles = {} \/ userRole \in allowedRoles

UsersByEmail(users, email) == {u \in users : u.email = email}

\* prisma.user.findUnique({ where: { email } })
findUniqueUserByEmail(users, email) ==
  IF UsersByEmail(users, email) = {}
  THEN NoUser
  ELSE CHOOSE u \in UsersByEmail(users, email) : TRUE

\* the autoincremented id of the next row of a table
NextId(rows) ==
  IF rows = {} THEN 1
  ELSE 1 + (CHOOSE n \in {row.id : row \in rows} :
              \A row \in rows : row.id <= n)

\* the users stored before the first request: nobody, another account, the
\* local account already there as a viewer or as an administrator
AuthDisabledStoredUsers ==
  {{},
   {[id |-> 1, email |-> "planner@example.com", role |-> "PLANNER"]},
   {[id |-> 1, email |-> DEMO_LOGIN_EMAIL, role |-> "VIEWER"]},
   {[id |-> 1, email |-> DEMO_LOGIN_EMAIL, role |-> "ADMIN"]}}

\* every request is about to enter getOrCreateAuthDisabledUser
AuthDisabledInit ==
  /\ PdfCallsIdle
  /\ sanitizeCall = [pc |-> "idle"]
  /\ lineWrap = [pc |-> "idle"]
  /\ returned = <<>>
  /\ calls = <<>>
  /\ optimizer = [pc |-> "idle"]
  /\ spreadCall = [pc |-> "idle"]
  /\ db \in {[users |-> users, sessions |-> {}, engagements |-> {}] :
               users \in AuthDisabledStoredUsers}
  /\ requests \in
       [1 .. MaxRequests ->
          {[pc |-> "findUnique", allowedRoles |-> allowedRoles,
            user |-> NoUser, status |-> 0] :
             allowedRoles \in {READ_ONLY_ROLES, EDITOR_ROLES}}]

AuthDisabledUnchanged ==
  UNCHANGED <<wrapCall, pagination, simplePdf, reportPdf, sanitizeCall,
              lineWrap, returned, calls, optimizer, spreadCall>>

\* let user = await prisma.user.findUnique({ where: { email } })
AuthDisabledFindUnique(r) ==
  /\ requests[r].pc = "findUnique"
  /\ LET user == findUniqueUserByEmail(db.users, DEMO_LOGIN_EMAIL)
     IN  requests' =
           [requests EXCEPT
              ![r].user = user,
              ![r].pc = IF user = NoUser THEN "create"
                        ELSE IF user.role # "ADMIN" THEN "update"
                        ELSE "check"]
  /\ UNCHANGED db
  /\ AuthDisabledUnchanged

\* user = await prisma.user.create(...): the unique index on User.email
\* rejects a second row with the same email and the promise rejects
AuthDisabledCreate(r) ==
  /\ requests[r].pc = "create"
  /\ IF UsersByEmail(db.users, DEMO_LOGIN_EMAIL) # {}
     THEN /\ requests' = [requests EXCEPT ![r].pc = "threw", ![r].status = 500]
          /\ UNCHANGED db
     ELSE LET user == [id |-> NextId(db.users), email |-> DEMO_LOGIN_EMAIL,
                       role |-> "ADMIN"]
          IN  /\ db' = [db EXCEPT !.users = @ \cup {user}]
              /\ requests' = [requests EXCEPT ![r].user = user, ![r].pc = "check"]
  /\ AuthDisabledUnchanged

\* user = await prisma.user.update({ where: { id }, data: { role: "ADMIN" } })
AuthDisabledUpdate(r) ==
  /\ requests[r].pc = "update"
  /\ LET user == [requests[r].user EXCEPT !.role = "ADMIN"]
     IN  /\ db' = [db EXCEPT !.users =
                     {IF u.id = user.id THEN [u EXCEPT !.role = "ADMIN"] ELSE u :
                        u \in @}]
         /\ requests' = [requests EXCEPT ![r].user = user, ![r].pc = "check"]
  /\ AuthDisabledUnchanged

\* the checks of requireSessionUser on the user it was given
RequireSessionUserStatus(user, allowedRoles) ==
  IF user = NoUser THEN 401
  ELSE IF ~isRoleAllowed(user.role, allowedRoles) THEN 403
  ELSE 200

AuthDisabledServe(r) ==
  /\ requests[r].pc = "check"
  /\ requests' =
       [requests EXCEPT
          ![r].pc = "done",
          ![r].status = RequireSessionUserStatus(requests[r].user,
                                                 requests[r].allowedRoles)]
  /\ UNCHANGED db
  /\ AuthDisabledUnchanged

AuthDisabledNext ==
  \E r \in 1 .. MaxRequests :
    \/ AuthDisabledFindUnique(r)
    \/ AuthDisabledCreate(r)
    \/ AuthDisabledUpdate(r)
    \/ AuthDisabledServe(r)

SpecAuthDisabled == AuthDisabledInit /\ [][AuthDisabledNext]_vars

AuthDisabledAllReturned ==
  \A r \in 1 .. MaxRequests : requests[r].pc \in {"done", "threw"}

\* C23: in auth-disabled mode every concurrent request that goes through
\* requireSessionUser is served as the ADMIN user with the local email, none
\* fails, and once all have returned exactly one user has that email
C23_AuthDisabledServesEveryRequest ==
  /\ \A r \in 1 .. MaxRequests :
       /\ requests[r].pc # "threw"
       /\ requests[r].pc = "done" =>
            /\ requests[r].status = 200
            /\ requests[r].user.email = DEMO_LOGIN_EMAIL
            /\ requests[r].user.role = "ADMIN"
  /\ AuthDisabledAllReturned =>
       Cardinality(UsersByEmail(db.users, DEMO_LOGIN_EMAIL)) = 1

\* what the unique index keeps true whatever the interleaving
AuthDisabledAtMostOneLocalUser ==
  /\ Cardinality(UsersByEmail(db.users, DEMO_LOGIN_EMAIL)) <= 1
  /\ AuthDisabledAllReturned =>
       Cardinality(UsersByEmail(db.users, DEMO_LOGIN_EMAIL)) = 1
  /\ \A r \in 1 .. MaxRequests :
       requests[r].pc = "done" =>
         /\ requests[r].status = 200
         /\ requests[r].user.role = "ADMIN"

(***************************************************************************)
(* The engagement API: src/app/api/engagements/route.ts, the route of one  *)
(* engagement (src/unnamed/part_010) and its export                        *)
(* (src/app/api/engagements/[id]/export/route.ts), with sessions enabled.  *)
(* requests holds the last request with the response it was given.         *)
(***************************************************************************)

\* the engagements ever created
MaxEngagements == 2

ApiUserIds == {1, 2}

\* the roles explored for each account: the first stays an administrator,
\* the second is a planner or a viewer
ApiRolesOf(userId) ==
  IF userId = 1 THEN {"ADMIN"} ELSE {"PLANNER", "VIEWER"}

\* no cookie, the live sessions of the two users, an expired session of the
\* first user
ApiTokens == {"", "s1", "s2", "old"}

ApiStoredSessions ==
  {[token |-> "s1", userId |-> 1, expired |-> FALSE],
   [token |-> "s2", userId |-> 2, expired |-> FALSE],
   [token |-> "old", userId |-> 1, expired |-> TRUE]}

\* a body the validation refuses, and one that names the customer, a
\* selection and a custom service
ApiPayloads ==
  {[valid |-> FALSE, customerName |-> "", selections |-> {}, customServices |-> {}],
   [valid |-> TRUE, customerName |-> "Beta", selections |-> {5},
    customServices |-> {"Workshop"}]}

\* the format parameter as sent; "" stands for a request without it
ApiFormats == {"", "csv", "pdf", "PDF"}

\* request.nextUrl.searchParams.get("format")?.toLowerCase() ?? "csv"
ExportFormat(format) ==
  IF format = "" THEN "csv"
  ELSE IF format = "PDF" THEN "pdf"
  ELSE format

\* toId: the id of the path, 0 standing for a path segment that is no
\* positive integer
toId(id) == IF id > 0 THEN id ELSE 0

SessionsByToken(sessions, token) == {s \in sessions : s.token = token}

\* getSessionUser: the user of the session named by the cookie
getSessionUser(database, token) ==
  IF token = "" \/ SessionsByToken(database.sessions, token) = {}
  THEN NoUser
  ELSE LET session == CHOOSE s \in SessionsByToken(database.sessions, token) : TRUE
       IN  IF session.expired
           THEN NoUser
           ELSE CHOOSE u \in database.users : u.id = session.userId

\* getSessionUser deletes the expired session it was asked for
SessionsAfterLookup(sessions, token) ==
  {s \in sessions : ~(s.token = token /\ s.expired)}


\* a lookup by id alone, whoever the owner is
findEngagementOfAnyOwner(database, engagementId, ownerId) ==
  {e \in database.engagements : e.id = engagementId}

\* prisma.engagement.findFirst({ where: { id, ownerId } })
findOwnedEngagement(database, engagementId, ownerId) ==
  {e \in database.engagements : e.id = engagementId /\ e.ownerId = ownerId}

NoRequest ==
  [method |-> "", route |-> "", user |-> NoUser, id |-> 0, format |-> "",
   status |-> 0, contentType |-> "", listed |-> {}]

ApiResponse(method, route, user, id, format, status, contentType, listed) ==
  [method |-> method, route |-> route, user |-> user, id |-> id,
   format |-> format, status |-> status, contentType |-> contentType,
   listed |-> listed]

\* two accounts, their sessions, no engagement yet
ApiInit ==
  /\ PdfCallsIdle
  /\ sanitizeCall = [pc |-> "idle"]
  /\ lineWrap = [pc |-> "idle"]
  /\ returned = <<>>
  /\ calls = <<>>
  /\ optimizer = [pc |-> "idle"]
  /\ spreadCall = [pc |-> "idle"]
  /\ db \in {[users |-> {[id |-> 1, email |-> "one@example.com", role |-> r1],
                         [id |-> 2, email |-> "two@example.com", role |-> r2]},
              sessions |-> ApiStoredSessions,
              engagements |-> {},
              engagementSeq |-> 0] : r1 \in ApiRolesOf(1), r2 \in ApiRolesOf(2)}
  /\ requests = NoRequest

\* the role column of a user is rewritten in the database (the API has no
\* route for it)
SetUserRole(userId, role) ==
  /\ \E u \in db.users : u.id = userId /\ u.role # role
  /\ db' = [db EXCEPT !.users =
              {IF u.id = userId THEN [u EXCEPT !.role = role] ELSE u : u \in @}]
  /\ UNCHANGED requests
  /\ AuthDisabledUnchanged

\* GET /api/engagements
ListEngagements(token) ==
  LET user == getSessionUser(db, token)
      status == RequireSessionUserStatus(user, READ_ONLY_ROLES)
  IN  /\ db' = [db EXCEPT !.sessions = SessionsAfterLookup(@, token)]
      /\ requests' =
           ApiResponse("GET", "/api/engagements", user, 0, "", status,
                       "application/json",
                       IF status = 200
                       THEN {e.id : e \in {o \in db.engagements : o.ownerId = user.id}}
                       ELSE {})
      /\ AuthDisabledUnchanged

\* POST /api/engagements
CreateEngagement(token, payload) ==
  LET user == getSessionUser(db, token)
      auth == RequireSessionUserStatus(user, EDITOR_ROLES)
      status == IF auth # 200 THEN auth
                ELSE IF ~payload.valid THEN 400
                ELSE 201
  IN  /\ status = 201 => db.engagementSeq < MaxEngagements
      /\ db' = [db EXCEPT
                  !.sessions = SessionsAfterLookup(@, token),
                  !.engagementSeq = IF status = 201 THEN @ + 1 ELSE @,
                  !.engagements =
                    IF status = 201
                    THEN @ \cup {[id |-> db.engagementSeq + 1,
                                  ownerId |-> user.id,
                                  customerName |-> payload.customerName,
                                  selections |-> {},
                                  customServices |-> {}]}
                    ELSE @]
      /\ requests' =
           ApiResponse("POST", "/api/engagements", user, 0, "", status,
                       "application/json", {})
      /\ AuthDisabledUnchanged

\* the checks shared by the handlers of one engagement: session, id, owner
OwnedEngagementStatus(user, id) ==
  IF user = NoUser THEN 401
  ELSE IF toId(id) = 0 THEN 400
  ELSE IF findOwnedEngagement(db, toId(id), user.id) = {} THEN 404
  ELSE 200

\* GET /api/engagements/:id
GetEngagement(token, id) ==
  LET user == getSessionUser(db, token)
  IN  /\ db' = [db EXCEPT !.sessions = SessionsAfterLookup(@, token)]
      /\ requests' =
           ApiResponse("GET", "/api/engagements/:id", user, id, "",
                       OwnedEngagementStatus(user, id), "application/json", {})
      /\ AuthDisabledUnchanged

\* PUT /api/engagements/:id
UpdateEngagement(token, id, payload) ==
  LET user == getSessionUser(db, token)
      owned == OwnedEngagementStatus(user, id)
      status == IF owned # 200 THEN owned
                ELSE IF ~payload.valid THEN 400
                ELSE 200
  IN  /\ db' = [db EXCEPT
                  !.sessions = SessionsAfterLookup(@, token),
                  !.engagements =
                    IF status = 200
                    THEN {IF e.id = toId(id)
                          THEN [e EXCEPT !.customerName = payload.customerName,
                                         !.selections = payload.selections,
                                         !.customServices = payload.customServices]
                          ELSE e : e \in @}
                    ELSE @]
      /\ requests' =
           ApiResponse("PUT", "/api/engagements/:id", user, id, "", status,
                       "application/json", {})
      /\ AuthDisabledUnchanged

\* DELETE /api/engagements/:id
DeleteEngagement(token, id) ==
  LET user == getSessionUser(db, token)
      status == OwnedEngagementStatus(user, id)
  IN  /\ db' = [db EXCEPT
                  !.sessions = SessionsAfterLookup(@, token),
                  !.engagements =
                    IF status = 200 THEN {e \in @ : e.id # toId(id)} ELSE @]
      /\ requests' =
           ApiResponse("DELETE", "/api/engagements/:id", user, id, "", status,
                       "application/json", {})
      /\ AuthDisabledUnchanged

\* the content type of the export answered for a format
ExportContentType(format) ==
  IF ExportFormat(format) = "pdf" THEN "application/pdf"
  ELSE "text/csv; charset=utf-8"

\* GET /api/engagements/:id/export
ExportEngagement(token, id, format) ==
  LET user == getSessionUser(db, token)
      status == OwnedEngagementStatus(user, id)
  IN  /\ db' = [db EXCEPT !.sessions = SessionsAfterLookup(@, token)]
      /\ requests' =
           ApiResponse("GET", "/api/engagements/:id/export", user, id, format,
                       status,
                       IF status = 200 THEN ExportContentType(format)
                       ELSE "application/json",
                       {})
      /\ AuthDisabledUnchanged

ApiNext ==
  \/ \E userId \in ApiUserIds : \E role \in ApiRolesOf(userId) :
       SetUserRole(userId, role)
  \/ \E token \in ApiTokens : ListEngagements(token)
  \/ \E token \in ApiTokens, payload \in ApiPayloads :
       CreateEngagement(token, payload)
  \/ \E token \in ApiTokens, id \in 0 .. MaxEngagements : GetEngagement(token, id)
  \/ \E token \in ApiTokens, id \in 0 .. MaxEngagements, payload \in ApiPayloads :
       UpdateEngagement(token, id, payload)
  \/ \E token \in ApiTokens, id \in 0 .. MaxEngagements : DeleteEngagement(token, id)
  \/ \E token \in ApiTokens, id \in 0 .. MaxEngagements, format \in ApiFormats :
       ExportEngagement(token, id, format)

SpecApi == ApiInit /\ [][ApiNext]_vars

ListRoute == "/api/engagements"

EngagementRoute == "/api/engagements/:id"

ExportRoute == "/api/engagements/:id/export"

\* a media type of CSV, with or without its charset parameter
IsTextCsv(contentType) ==
  contentType \in {"text/csv", "text/csv; charset=utf-8"}

\* the response being given (requests') answers a user who owns the
\* engagement it names
AnswersOwner ==
  /\ requests'.user # NoUser
  /\ \E e \in db.engagements :
       e.id = requests'.id /\ e.ownerId = requests'.user.id

\* the response being given answers a signed-in user about an engagement
\* that belongs to somebody else
AnswersNonOwner ==
  /\ requests'.user # NoUser
  /\ \E e \in db.engagements :
       e.id = requests'.id /\ e.ownerId # requests'.user.id

\* C21: an export asked by the signed-in owner with format=pdf is answered
\* 400 and carries no PDF body, and with format=csv it is answered 200 with
\* content type text/csv
C21_ExportIsCsvOnly ==
  [][(requests'.route = ExportRoute /\ AnswersOwner) =>
       /\ requests'.format = "pdf" =>
            /\ requests'.status = 400
            /\ requests'.contentType # "application/pdf"
       /\ requests'.format = "csv" =>
            /\ requests'.status = 200
            /\ IsTextCsv(requests'.contentType)]_vars

\* the half of C21 about format=csv
ExportCsvServed ==
  [][(requests'.route = ExportRoute /\ AnswersOwner
        /\ requests'.format \in {"", "csv"}) =>
       /\ requests'.status = 200
       /\ IsTextCsv(requests'.contentType)]_vars

\* C22: a request of a user whose role is VIEWER never creates, modifies or
\* deletes an engagement: POST /api/engagements and PUT and DELETE of
\* /api/engagements/:id are answered 403 and leave the stored engagements
\* with their selections and custom services as they were, and the list of
\* engagements is answered 200
C22_ViewerIsReadOnly ==
  /\ [](requests.user.role = "VIEWER" =>
          /\ requests.method \in {"POST", "PUT", "DELETE"} =>
               requests.status = 403
          /\ (requests.method = "GET" /\ requests.route = ListRoute) =>
               requests.status = 200)
  /\ [][requests'.user.role = "VIEWER" =>
          db'.engagements = db.engagements]_vars

\* the part of C22 about the routes that go through requireSessionUser
ViewerCannotCreate ==
  /\ [](requests.user.role = "VIEWER" /\ requests.route = ListRoute =>
          /\ requests.method = "POST" => requests.status = 403
          /\ requests.method = "GET" => requests.status = 200)
  /\ [][(requests'.user.role = "VIEWER" /\ requests'.route = ListRoute) =>
          db'.engagements = db.engagements]_vars

\* C24: GET, PUT, DELETE and export of an engagement asked by a signed-in
\* user who does not own it are answered 404 and leave every engagement with
\* its selections and custom services unchanged, and a list answered 200
\* holds exactly the ids of the engagements whose ownerId is the requester's
C24_EngagementsArePerOwner ==
  /\ [][(requests'.route \in {EngagementRoute, ExportRoute} /\ AnswersNonOwner) =>
          /\ requests'.status = 404
          /\ db'.engagements = db.engagements]_vars
  /\ [][(requests'.route = ListRoute /\ requests'.method = "GET"
           /\ requests'.status = 200) =>
          /\ requests'.listed =
               {e.id : e \in {o \in db.engagements : o.ownerId = requests'.user.id}}
          /\ \A e \in db.engagements :
               e.ownerId # requests'.user.id => e.id \notin requests'.listed]_vars

\* the administrator's engagement 1 was asked to be replaced by the planner,
\* who was answered 404, and is still as its owner created it
C24_Witness ==
  /\ requests.method = "PUT"
  /\ requests.route = EngagementRoute
  /\ requests.id = 1
  /\ requests.user.id = 2
  /\ requests.status = 404
  /\ \E e \in db.engagements :
       e.id = 1 /\ e.ownerId = 1 /\ e.selections = {} /\ e.customServices = {}
  /\ \E e \in db.engagements : e.id = 2 /\ e.ownerId = 2

====
